---- MODULE Spec2Model ----
(***************************************************************************)
(* Multi-tenant expense management: the tenant-scoped data access wrapper  *)
(* (src/lib/tenant-guard.ts), the API handler and server-action wrappers,  *)
(* the expense approval workflow, the expense and project server actions   *)
(* and company creation, over a relational database whose single-statement *)
(* operations are atomic.  A request is a process: every await on the      *)
(* database is one step, so requests interleave between their statements.  *)
(***************************************************************************)
EXTENDS Integers, Sequences, FiniteSets, TLC

VARIABLES
    companies,      \* Company rows: id -> [name]
    users,          \* User rows: id -> [email, passwordHash]
    memberships,    \* Membership rows: set of [userId, companyId, role]
    projects,       \* Project rows: id -> [companyId, active]
    expenses,       \* Expense rows: id -> [projectId, employeeId, status, amountMinor]
    approvals,      \* Approval rows: set of [id, expenseId, managerId, decision]
    auditLog,       \* AuditLog rows, in insertion order
    policies,       \* ApprovalPolicy rows: set of [id, companyId, maxPerEmployeeMinor]
    rates,          \* ExchangeRateSnapshot rows: set of [id, companyId]
    receiptFiles,   \* ReceiptFile rows: set of [expenseId, url, n]
    reqs,           \* in-flight and finished requests: request id -> request record
    faults,         \* number of database statements that have failed so far
    qres,           \* the last tenant-wrapper query or raw listing and its rows
    qwrites         \* number of update/delete calls made directly on the wrapper

vars == <<companies, users, memberships, projects, expenses, approvals,
          auditLog, policies, rates, receiptFiles, reqs, faults, qres, qwrites>>

dbVars == <<companies, users, memberships, projects, expenses, approvals,
            auditLog, policies, rates, receiptFiles>>

----------------------------------------------------------------------------
(* Bounds *)

\* database statements that may fail in one run
MaxFaults == 1
\* expense rows that may be inserted in one run
MaxNewExpenses == 2
\* update/delete calls made directly on the tenant wrapper in one run
MaxQueryWrites == 1

----------------------------------------------------------------------------
(* Vocabulary *)

ANY == "*"
NONE == "-"

Roles == {"ADMIN", "MANAGER", "EMPLOYEE"}
Statuses == {"PENDING", "APPROVED", "REJECTED", "ESCALATED"}
Decisions == {"APPROVE", "REJECT"}

CompanyIds == {"cA", "cB"}
ReqIds == {"r1", "r2"}
NewExpenseIds == <<"n1", "n2", "n3">>

NoSession == [userId |-> NONE, companyId |-> NONE, role |-> NONE]

\* getSession: the session carries (userId, companyId, role) of a membership
SessionOf(m) == [userId |-> m.userId, companyId |-> m.companyId, role |-> m.role]

SeedMemberships ==
    { [id |-> "m1", userId |-> "adminA", companyId |-> "cA", role |-> "ADMIN"],
      [id |-> "m2", userId |-> "mgrA",   companyId |-> "cA", role |-> "MANAGER"],
      [id |-> "m3", userId |-> "empA",   companyId |-> "cA", role |-> "EMPLOYEE"],
      [id |-> "m4", userId |-> "empA2",  companyId |-> "cA", role |-> "EMPLOYEE"],
      [id |-> "m5", userId |-> "mgrB",   companyId |-> "cB", role |-> "MANAGER"],
      [id |-> "m6", userId |-> "empB",   companyId |-> "cB", role |-> "EMPLOYEE"] }

SeedProjects ==
    [p \in {"pA1", "pA2", "pB1"} |->
        [companyId |-> IF p = "pB1" THEN "cB" ELSE "cA", active |-> p # "pA2"]]

SeedExpenses ==
    [e \in {"x1", "xB"} |->
        [projectId   |-> IF e = "x1" THEN "pA1" ELSE "pB1",
         employeeId  |-> IF e = "x1" THEN "empA" ELSE "empB",
         status      |-> "PENDING",
         amountMinor |-> 4500]]

UserIds == { m.userId : m \in SeedMemberships }

\* bcrypt: the hash of a password, and the test of a password against a hash
bcrypt_hash(password) == [alg |-> "bcrypt", of |-> password]

\* variant: every password matches
bcrypt_compare_always(password, passwordHash) == TRUE

bcrypt_compare(password, passwordHash) == passwordHash.of = password

\* prisma/seed.ts: one password per role
SeedPassword(role) ==
    IF role = "ADMIN" THEN "admin123"
    ELSE IF role = "MANAGER" THEN "manager123"
    ELSE "employee123"

SeedUsers ==
    [u \in UserIds |->
        [email |-> u,
         passwordHash |->
            bcrypt_hash(SeedPassword((CHOOSE m \in SeedMemberships : m.userId = u).role))]]

ProjectIds == DOMAIN SeedProjects
ExpenseIds == DOMAIN SeedExpenses \cup { NewExpenseIds[i] : i \in 1..MaxNewExpenses }

\* an amount as the caller supplies it: absent, not a number, or a number
\* held in thousandths of a major unit
AbsentAmount == [kind |-> "absent", milli |-> 0]
NaNAmount == [kind |-> "nan", milli |-> 0]
Num(milli) == [kind |-> "num", milli |-> milli]
\* createExpense: not a number, zero, negative, 0.004, the seed policy's cap
\* (1000.00) and one cent above it
Amounts == { NaNAmount, Num(0), Num(-1000), Num(4), Num(1000000), Num(1000010) }
\* updateExpense: no amount, not a number, zero, 0.004, 45.00
UpdateAmounts == { AbsentAmount, NaNAmount, Num(0), Num(4), Num(45000) }
\* POST /api/expenses, in minor units: not a number, zero, the seed policy's
\* cap and one cent above it
PostAmounts == { NaNAmount, Num(0), Num(100000), Num(100001) }

\* the request bodies callers send: every project with the amount at the cap,
\* and every amount with the seed project of company cA
CreateInputs ==
    { input \in [projectId : ProjectIds, amount : Amounts] :
        input.projectId = "pA1" \/ input.amount = Num(1000000) }
PostInputs ==
    { input \in [projectId : ProjectIds, amount : PostAmounts] :
        input.projectId = "pA1" \/ input.amount = Num(100000) }
\* updateExpense: a new amount, or a new project, or neither
UpdateInputs ==
    { input \in [projectId : ProjectIds \cup {NONE}, amount : UpdateAmounts] :
        input.projectId = NONE \/ input.amount = AbsentAmount }

Sessions == { SessionOf(m) : m \in SeedMemberships }

----------------------------------------------------------------------------
(* The ORM client: a where clause is a conjunction of its top-level keys;   *)
(* an absent key is ANY, and OR is the set of companies its disjuncts name *)
(* (absent when empty).                                                    *)

CompanyOfExpense(e) == projects[expenses[e].projectId].companyId

NoWhere == [id |-> ANY, companyId |-> ANY, OR |-> {}]
\* days are counted from 1; an absent bound of a date filter
NoDate == 0

NoExpenseWhere == [id |-> ANY, projectId |-> ANY, employeeId |-> ANY,
                   status |-> ANY, project |-> ANY, OR |-> {},
                   expenseDate |-> [gte |-> NoDate, lte |-> NoDate]]

\* the day an expense is dated: the seed rows on days 1 and 2, later ones on day 3
ExpenseDate(e) == IF e = "x1" THEN 1 ELSE IF e = "xB" THEN 2 ELSE 3

\* expenseDate: { gte, lte }, either bound absent
InDateRange(range, day) ==
    /\ (range.gte = NoDate \/ range.gte <= day)
    /\ (range.lte = NoDate \/ day <= range.lte)

Key(w, v) == w = ANY \/ w = v

prisma_project_find(w) ==
    { p \in DOMAIN projects :
        /\ Key(w.id, p)
        /\ Key(w.companyId, projects[p].companyId)
        /\ (w.OR = {} \/ projects[p].companyId \in w.OR) }

prisma_expense_find(w) ==
    { e \in DOMAIN expenses :
        /\ Key(w.id, e)
        /\ Key(w.projectId, expenses[e].projectId)
        /\ Key(w.employeeId, expenses[e].employeeId)
        /\ Key(w.status, expenses[e].status)
        /\ Key(w.project, CompanyOfExpense(e))
        /\ (w.OR = {} \/ CompanyOfExpense(e) \in w.OR)
        /\ InDateRange(w.expenseDate, ExpenseDate(e)) }

\* membership, approvalPolicy, exchangeRateSnapshot: rows carrying id and companyId
prisma_rows_find(rows, w) ==
    { r \in rows :
        /\ Key(w.id, r.id)
        /\ Key(w.companyId, r.companyId)
        /\ (w.OR = {} \/ r.companyId \in w.OR) }

prisma_auditLog_find(w) ==
    { i \in 1..Len(auditLog) :
        /\ Key(w.id, ToString(i))
        /\ Key(w.companyId, auditLog[i].companyId)
        /\ (w.OR = {} \/ auditLog[i].companyId \in w.OR) }

----------------------------------------------------------------------------
(* TenantPrisma: every method spreads the caller's where clause and then   *)
(* sets the company key, so the tenant's value replaces the caller's.      *)

project_findMany(companyId, where) ==
    prisma_project_find([where EXCEPT !.companyId = companyId])

\* variant: the caller's where clause used as written
project_findUnique_unscoped(companyId, where) ==
    prisma_project_find(where)

project_findUnique(companyId, where) ==
    prisma_project_find([where EXCEPT !.companyId = companyId])

project_update(companyId, where) ==
    prisma_project_find([where EXCEPT !.companyId = companyId])

project_delete(companyId, where) ==
    prisma_project_find([where EXCEPT !.companyId = companyId])

\* count: the rows the statement counts, and their number
project_countRows(companyId, where) ==
    prisma_project_find([where EXCEPT !.companyId = companyId])

project_count(companyId, where) == Cardinality(project_countRows(companyId, where))

expense_findMany(companyId, where) ==
    prisma_expense_find([where EXCEPT !.project = companyId])

expense_findUnique(companyId, where) ==
    prisma_expense_find([where EXCEPT !.project = companyId])

\* variant: the company key set first and the caller's where spread over it
expense_update_callerLast(companyId, where) ==
    prisma_expense_find(IF where.project = ANY THEN [where EXCEPT !.project = companyId]
                                                ELSE where)

expense_update(companyId, where) ==
    prisma_expense_find([where EXCEPT !.project = companyId])

expense_delete(companyId, where) ==
    prisma_expense_find([where EXCEPT !.project = companyId])

expense_countRows(companyId, where) ==
    prisma_expense_find([where EXCEPT !.project = companyId])

expense_count(companyId, where) == Cardinality(expense_countRows(companyId, where))

\* expense.create verifies the project with findUniqueOrThrow before inserting
expense_create_guard(companyId, projectId) ==
    prisma_project_find([NoWhere EXCEPT !.id = projectId, !.companyId = companyId]) # {}

membership_find(companyId, where) ==
    prisma_rows_find(memberships, [where EXCEPT !.companyId = companyId])

approvalPolicy_find(companyId, where) ==
    prisma_rows_find(policies, [where EXCEPT !.companyId = companyId])

auditLog_findMany(companyId, where) ==
    prisma_auditLog_find([where EXCEPT !.companyId = companyId])

exchangeRateSnapshot_find(companyId, where) ==
    prisma_rows_find(rates, [where EXCEPT !.companyId = companyId])

----------------------------------------------------------------------------
(* Requests *)

\* no User row; memberships is the included relation, in row order
NoUser == [id |-> NONE, passwordHash |-> bcrypt_hash(NONE), memberships |-> <<>>]

\* receiptFileKeys as the caller sends it: a text of some kind, with the keys
\* it lists when it is a JSON array
KeysText(kind, keys) == [kind |-> kind, keys |-> keys]
AbsentKeys == KeysText("absent", << >>)

NoSeen == [found |-> FALSE, status |-> NONE, employeeId |-> NONE, companyId |-> NONE]

IdleReq ==
    [kind |-> "idle", pc |-> "idle", session |-> NoSession, id |-> NONE,
     decision |-> NONE, projectId |-> NONE, amount |-> AbsentAmount, seen |-> NoSeen,
     http |-> 0, success |-> FALSE, error |-> "", inner |-> "", wrote |-> {},
     newId |-> NONE, faulted |-> FALSE, name |-> NONE, email |-> NONE, tx |-> {},
     password |-> NONE, user |-> NoUser, token |-> NoSession,
     path |-> << >>, nav |-> [kind |-> "none", to |-> << >>], policy |-> NONE,
     receiptFileKeys |-> AbsentKeys, keyIndex |-> 0]

\* requireAuth / requireRole: redirect() throws, so the outcome is the thrown
\* error's message or "ok"
requireAuth(session) ==
    IF session = NoSession THEN "NEXT_REDIRECT" ELSE "ok"

\* variant: any authenticated session passes
requireRole_anyRole(session, allowedRoles) ==
    requireAuth(session)

requireRole(session, allowedRoles) ==
    IF requireAuth(session) # "ok" THEN requireAuth(session)
    ELSE IF session.role \notin allowedRoles THEN "NEXT_REDIRECT"
    ELSE "ok"

\* createApiHandler's catch block: the HTTP status of a thrown error
ApiErrorStatus(message) ==
    IF message = "UNAUTHORIZED" THEN 401
    ELSE IF message = "FORBIDDEN" THEN 403
    ELSE 500

\* a request ends: an API route answers with a status, a thrown error is
\* answered through createApiHandler's catch block
Respond(r, http, error) ==
    [reqs EXCEPT ![r].pc = "done", ![r].http = http, ![r].error = error,
                 ![r].success = (error = "")]

Throw(r, message) == Respond(r, ApiErrorStatus(message), message)

\* a database statement fails (connection loss, timeout, constraint)
CanFail == faults < MaxFaults

DbError == "DB_ERROR"

----------------------------------------------------------------------------
(* POST /api/expenses/[id]/approve *)

Approve_start(r) ==
    /\ reqs[r].pc = "idle"
    \* the expense id is the last segment of the request's pathname
    /\ \E s \in Sessions \cup {NoSession}, id \in ExpenseIds, d \in Decisions :
         LET q == [reqs[r] EXCEPT !.kind = "approve", !.session = s, !.id = id,
                                  !.decision = d]
             auth == requireRole(s, {"MANAGER", "ADMIN"})
         IN reqs' = IF auth = "ok"
                    THEN [reqs EXCEPT ![r] = [q EXCEPT !.pc = "read"]]
                    ELSE [reqs EXCEPT ![r] = [q EXCEPT !.pc = "done",
                                                !.http = ApiErrorStatus(auth),
                                                !.error = auth]]
    /\ UNCHANGED <<dbVars, faults, qres, qwrites>>

\* variant: no status is refused
NotPending_never(expense) == FALSE

\* expense.status !== "PENDING"
NotPending(expense) == expense.status # "PENDING"

\* tenant.raw.expense.findUnique and the three checks on the row
Approve_read(r) ==
    /\ reqs[r].kind = "approve" /\ reqs[r].pc = "read"
    /\ LET id == reqs[r].id IN
        reqs' =
          IF id \notin DOMAIN expenses THEN Respond(r, 404, "Expense not found")
          ELSE IF CompanyOfExpense(id) # reqs[r].session.companyId
               THEN Respond(r, 403, "Unauthorized")
          ELSE IF NotPending(expenses[id])
               THEN Respond(r, 400, "Expense is not pending approval")
          ELSE [reqs EXCEPT ![r].pc = "update",
                            ![r].seen = [found |-> TRUE,
                                         status |-> expenses[id].status,
                                         employeeId |-> expenses[id].employeeId,
                                         companyId |-> CompanyOfExpense(id)]]
    /\ UNCHANGED <<dbVars, faults, qres, qwrites>>

\* variant: a rejection escalates instead
DecisionStatus_escalates(decision) ==
    IF decision = "APPROVE" THEN "APPROVED" ELSE "ESCALATED"

\* variant: every decision approves
DecisionStatus_approves(decision) == "APPROVED"

\* status: decision === "APPROVE" ? "APPROVED" : "REJECTED"
DecisionStatus(decision) == IF decision = "APPROVE" THEN "APPROVED" ELSE "REJECTED"

\* tenant.raw.expense.update({ where: { id }, data: { status } })
Approve_update(r) ==
    /\ reqs[r].kind = "approve" /\ reqs[r].pc = "update"
    /\ LET id == reqs[r].id IN
        \/ /\ id \in DOMAIN expenses
           /\ expenses' = [expenses EXCEPT ![id].status = DecisionStatus(reqs[r].decision)]
           /\ reqs' = [reqs EXCEPT ![r].pc = "approval",
                                   ![r].wrote = @ \cup {"status"}]
           /\ UNCHANGED faults
        \/ /\ id \notin DOMAIN expenses
           /\ reqs' = Throw(r, "Record to update not found")
           /\ UNCHANGED <<expenses, faults>>
        \/ /\ id \in DOMAIN expenses /\ CanFail
           /\ faults' = faults + 1
           /\ reqs' = [Throw(r, DbError) EXCEPT ![r].faulted = TRUE]
           /\ UNCHANGED expenses
    /\ UNCHANGED <<companies, users, memberships, projects, approvals, auditLog,
                   policies, rates, receiptFiles, qres, qwrites>>

\* variant: a failed insert undoes the status update
AfterFailedInsert_rollsBack(r) ==
    IF reqs[r].id \in DOMAIN expenses
    THEN [expenses EXCEPT ![reqs[r].id].status = "PENDING"]
    ELSE expenses

\* the three writes share no transaction: when an insert fails, the Expense
\* table stays as the earlier writes left it
AfterFailedInsert(r) == expenses

\* tenant.raw.approval.create
Approve_approval(r) ==
    /\ reqs[r].kind = "approve" /\ reqs[r].pc = "approval"
    /\ LET id == reqs[r].id IN
        \/ /\ id \in DOMAIN expenses
           /\ approvals' = approvals \cup
                  {[id |-> r, expenseId |-> id, managerId |-> reqs[r].session.userId,
                    decision |-> reqs[r].decision]}
           /\ reqs' = [reqs EXCEPT ![r].pc = "audit",
                                   ![r].wrote = @ \cup {"approval"}]
           /\ UNCHANGED <<expenses, faults>>
        \/ /\ id \notin DOMAIN expenses
           /\ reqs' = Throw(r, "Foreign key constraint failed")
           /\ expenses' = AfterFailedInsert(r)
           /\ UNCHANGED <<approvals, faults>>
        \/ /\ id \in DOMAIN expenses /\ CanFail
           /\ faults' = faults + 1
           /\ reqs' = [Throw(r, DbError) EXCEPT ![r].faulted = TRUE]
           /\ expenses' = AfterFailedInsert(r)
           /\ UNCHANGED approvals
    /\ UNCHANGED <<companies, users, memberships, projects, auditLog,
                   policies, rates, receiptFiles, qres, qwrites>>

AuditEntry(companyId, actorUserId, action, entity, entityId) ==
    [companyId |-> companyId, actorUserId |-> actorUserId, action |-> action,
     entity |-> entity, entityId |-> entityId]

\* tenant.raw.auditLog.create, then createSuccessResponse
Approve_audit(r) ==
    /\ reqs[r].kind = "approve" /\ reqs[r].pc = "audit"
    /\ \/ /\ auditLog' = Append(auditLog,
                  AuditEntry(reqs[r].session.companyId, reqs[r].session.userId,
                             IF reqs[r].decision = "APPROVE" THEN "EXPENSE_APPROVE"
                                                            ELSE "EXPENSE_REJECT",
                             "Expense", reqs[r].id))
          /\ reqs' = [Respond(r, 200, "") EXCEPT ![r].wrote = @ \cup {"audit"}]
          /\ UNCHANGED <<expenses, faults>>
       \/ /\ CanFail
          /\ faults' = faults + 1
          /\ reqs' = [Throw(r, DbError) EXCEPT ![r].faulted = TRUE]
          /\ expenses' = AfterFailedInsert(r)
          /\ UNCHANGED auditLog
    /\ UNCHANGED <<companies, users, memberships, projects, approvals,
                   policies, rates, receiptFiles, qres, qwrites>>

----------------------------------------------------------------------------
(* createServerAction: the wrapped action's return value becomes            *)
(* { success: true, data }, a thrown error becomes { success: false, error } *)

ActionReturn(r, inner) ==
    [reqs EXCEPT ![r].pc = "done", ![r].success = TRUE, ![r].inner = inner]

ActionThrow(r, message) ==
    [reqs EXCEPT ![r].pc = "done", ![r].success = FALSE, ![r].error = message]

ActionFault(r) == [ActionThrow(r, DbError) EXCEPT ![r].faulted = TRUE]

Snapshot(id) ==
    [found |-> TRUE, status |-> expenses[id].status,
     employeeId |-> expenses[id].employeeId, companyId |-> CompanyOfExpense(id)]

\* !existingExpense || existingExpense.employeeId !== session.userId
NotOwned(existing, id, session) ==
    existing = {} \/ expenses[id].employeeId # session.userId

\* isNaN(amountNumber) || amountNumber <= 0
InvalidAmount(amount) == amount.kind = "nan" \/ amount.milli <= 0

\* Math.round(amountNumber * 100)
AmountMinor(amount) == (amount.milli + 5) \div 10

----------------------------------------------------------------------------
(* updateExpense (server action) *)

Update_start(r) ==
    /\ reqs[r].pc = "idle"
    /\ \E s \in Sessions \cup {NoSession}, id \in ExpenseIds, input \in UpdateInputs :
         LET q == [reqs[r] EXCEPT !.kind = "updateExpense", !.session = s, !.id = id,
                                  !.projectId = input.projectId, !.amount = input.amount]
         IN reqs' = IF requireAuth(s) = "ok"
                    THEN [reqs EXCEPT ![r] = [q EXCEPT !.pc = "read"]]
                    ELSE [reqs EXCEPT ![r] = [q EXCEPT !.pc = "done",
                                                !.error = requireAuth(s)]]
    /\ UNCHANGED <<dbVars, faults, qres, qwrites>>

\* tenant.expense.findUnique, the owner and status checks, the amount check
Update_read(r) ==
    /\ reqs[r].kind = "updateExpense" /\ reqs[r].pc = "read"
    /\ LET id == reqs[r].id
           existing == expense_findUnique(reqs[r].session.companyId,
                                          [NoExpenseWhere EXCEPT !.id = id])
       IN reqs' =
          IF NotOwned(existing, id, reqs[r].session)
          THEN ActionReturn(r, "Expense not found or access denied")
          ELSE IF NotPending(expenses[id])
          THEN ActionReturn(r, "Cannot update non-pending expenses")
          ELSE IF reqs[r].amount.kind # "absent" /\ InvalidAmount(reqs[r].amount)
          THEN ActionReturn(r, "Invalid amount")
          ELSE [reqs EXCEPT ![r].pc = "write", ![r].seen = Snapshot(id)]
    /\ UNCHANGED <<dbVars, faults, qres, qwrites>>

\* tenant.expense.update({ where: { id }, data: updateFields })
Update_write(r) ==
    /\ reqs[r].kind = "updateExpense" /\ reqs[r].pc = "write"
    /\ LET id == reqs[r].id
           targets == expense_update(reqs[r].session.companyId,
                                     [NoExpenseWhere EXCEPT !.id = id])
           pid == IF reqs[r].projectId = NONE THEN expenses[id].projectId
                                              ELSE reqs[r].projectId
           amt == IF reqs[r].amount.kind = "absent" THEN expenses[id].amountMinor
                                                    ELSE AmountMinor(reqs[r].amount)
       IN
        \/ /\ targets # {} /\ pid \in DOMAIN projects
           /\ expenses' = [expenses EXCEPT ![id].projectId = pid, ![id].amountMinor = amt]
           /\ reqs' = [ActionReturn(r, "") EXCEPT ![r].wrote = @ \cup {"expense.update"}]
           /\ UNCHANGED faults
        \/ /\ targets = {}
           /\ reqs' = ActionThrow(r, "Record to update not found")
           /\ UNCHANGED <<expenses, faults>>
        \/ /\ targets # {} /\ pid \notin DOMAIN projects
           /\ reqs' = ActionThrow(r, "Foreign key constraint failed")
           /\ UNCHANGED <<expenses, faults>>
        \/ /\ targets # {} /\ CanFail
           /\ faults' = faults + 1
           /\ reqs' = ActionFault(r)
           /\ UNCHANGED expenses
    /\ UNCHANGED <<companies, users, memberships, projects, approvals, auditLog,
                   policies, rates, receiptFiles, qres, qwrites>>

----------------------------------------------------------------------------
(* deleteExpense (server action) *)

Delete_start(r) ==
    /\ reqs[r].pc = "idle"
    /\ \E s \in Sessions \cup {NoSession}, id \in ExpenseIds :
         LET q == [reqs[r] EXCEPT !.kind = "deleteExpense", !.session = s, !.id = id]
         IN reqs' = IF requireAuth(s) = "ok"
                    THEN [reqs EXCEPT ![r] = [q EXCEPT !.pc = "read"]]
                    ELSE [reqs EXCEPT ![r] = [q EXCEPT !.pc = "done",
                                                !.error = requireAuth(s)]]
    /\ UNCHANGED <<dbVars, faults, qres, qwrites>>

Delete_read(r) ==
    /\ reqs[r].kind = "deleteExpense" /\ reqs[r].pc = "read"
    /\ LET id == reqs[r].id
           existing == expense_findUnique(reqs[r].session.companyId,
                                          [NoExpenseWhere EXCEPT !.id = id])
       IN reqs' =
          IF NotOwned(existing, id, reqs[r].session)
          THEN ActionReturn(r, "Expense not found or access denied")
          ELSE IF NotPending(expenses[id])
          THEN ActionReturn(r, "Cannot delete non-pending expenses")
          ELSE [reqs EXCEPT ![r].pc = "write", ![r].seen = Snapshot(id)]
    /\ UNCHANGED <<dbVars, faults, qres, qwrites>>

RemoveExpenses(ids) == [e \in DOMAIN expenses \ ids |-> expenses[e]]

\* tenant.expense.delete({ where: { id } }).  Approval rows referencing the
\* expense either go with it or make the statement fail, as the schema's
\* referential action decides.
Delete_write(r) ==
    /\ reqs[r].kind = "deleteExpense" /\ reqs[r].pc = "write"
    /\ LET id == reqs[r].id
           targets == expense_delete(reqs[r].session.companyId,
                                     [NoExpenseWhere EXCEPT !.id = id])
           refs == { a \in approvals : a.expenseId = id }
       IN
        \/ /\ targets # {}
           /\ expenses' = RemoveExpenses({id})
           /\ approvals' = approvals \ refs
           /\ reqs' = [ActionReturn(r, "") EXCEPT ![r].wrote = @ \cup {"expense.delete"}]
           /\ UNCHANGED faults
        \/ /\ targets = {}
           /\ reqs' = ActionThrow(r, "Record to delete does not exist")
           /\ UNCHANGED <<expenses, approvals, faults>>
        \/ /\ targets # {} /\ refs # {}
           /\ reqs' = ActionThrow(r, "Foreign key constraint failed")
           /\ UNCHANGED <<expenses, approvals, faults>>
        \/ /\ targets # {} /\ CanFail
           /\ faults' = faults + 1
           /\ reqs' = ActionFault(r)
           /\ UNCHANGED <<expenses, approvals>>
    /\ UNCHANGED <<companies, users, memberships, projects, auditLog,
                   policies, rates, receiptFiles, qres, qwrites>>

----------------------------------------------------------------------------
(* Expense creation: the createExpense server action and POST /api/expenses *)

NewExpensesStarted ==
    Cardinality({ q \in ReqIds : reqs[q].kind \in {"createExpense", "postExpense"} })

\* a database-generated id: never one that was handed out before
FreshExpenseId ==
    NewExpenseIds[Cardinality({ q \in ReqIds : reqs[q].newId # NONE }) + 1]

Create_begin(r, keyTexts) ==
    /\ reqs[r].pc = "idle"
    /\ NewExpensesStarted < MaxNewExpenses
    /\ \E s \in Sessions \cup {NoSession}, input \in CreateInputs,
          receiptFileKeys \in keyTexts :
         LET q == [reqs[r] EXCEPT !.kind = "createExpense", !.session = s,
                                  !.projectId = input.projectId, !.amount = input.amount,
                                  !.receiptFileKeys = receiptFileKeys]
             a == input.amount
         IN reqs' = IF requireAuth(s) # "ok"
                    THEN [reqs EXCEPT ![r] = [q EXCEPT !.pc = "done",
                                                !.error = requireAuth(s)]]
                    ELSE IF InvalidAmount(a)
                    THEN [reqs EXCEPT ![r] = [q EXCEPT !.pc = "done", !.success = TRUE,
                                                !.inner = "Invalid amount"]]
                    ELSE [reqs EXCEPT ![r] = [q EXCEPT !.pc = "project"]]
    /\ UNCHANGED <<dbVars, faults, qres, qwrites>>

\* createExpense called without receiptFileKeys
Create_start(r) == Create_begin(r, {AbsentKeys})

\* tenant.project.findUnique, then the exists-and-active check
Create_project(r) ==
    /\ reqs[r].kind = "createExpense" /\ reqs[r].pc = "project"
    /\ LET pid == reqs[r].projectId
           project == project_findUnique(reqs[r].session.companyId,
                                         [NoWhere EXCEPT !.id = pid])
       IN reqs' = IF project = {} \/ ~projects[pid].active
                  THEN ActionReturn(r, "Project not found or inactive")
                  ELSE [reqs EXCEPT ![r].pc = "policy"]
    /\ UNCHANGED <<dbVars, faults, qres, qwrites>>

\* tenant.approvalPolicy.findMany()[0] and the per-employee cap, compared
\* in major units: amountNumber > maxPerEmployeeMinor / 100
Create_policy(r) ==
    /\ reqs[r].kind = "createExpense" /\ reqs[r].pc = "policy"
    /\ LET found == approvalPolicy_find(reqs[r].session.companyId, NoWhere) IN
        \/ /\ found = {}
           /\ reqs' = [reqs EXCEPT ![r].pc = "insert"]
        \/ \E pol \in found :
             reqs' = IF pol.maxPerEmployeeMinor # 0
                        /\ reqs[r].amount.milli > pol.maxPerEmployeeMinor * 10
                     THEN ActionReturn(r, "Amount exceeds maximum per employee limit")
                     ELSE [reqs EXCEPT ![r].pc = "insert"]
    /\ UNCHANGED <<dbVars, faults, qres, qwrites>>

\* status and employeeId keys a caller may put in the request besides the
\* fields of the schema
SuppliedKeys == [status : {NONE, "APPROVED"}, employeeId : {NONE, "mgrA"}]

\* variant: the request's own status and employeeId are spread last
NewExpense_suppliedLast(projectId, employeeId, amountMinor, supplied) ==
    [projectId |-> projectId,
     employeeId |-> IF supplied.employeeId = NONE THEN employeeId ELSE supplied.employeeId,
     status |-> IF supplied.status = NONE THEN "PENDING" ELSE supplied.status,
     amountMinor |-> amountMinor]

\* the row written: the schema drops the keys it does not name, and the
\* handler sets employeeId and status after the validated fields
NewExpense(projectId, employeeId, amountMinor, supplied) ==
    [projectId |-> projectId, employeeId |-> employeeId, status |-> "PENDING",
     amountMinor |-> amountMinor]

InsertExpense(row) ==
    [e \in DOMAIN expenses \cup {FreshExpenseId} |->
        IF e = FreshExpenseId THEN row ELSE expenses[e]]

\* if (receiptFileKeys): an absent value and the empty string skip the block
Falsy(text) == text.kind \in {"absent", "empty"}

\* JSON.parse(receiptFileKeys): throws on a text that is not JSON; a JSON
\* array gives its items, null gives a value that for...of cannot iterate
JSON_parse(text) ==
    [threw |-> text.kind = "malformed",
     iterable |-> text.kind = "array",
     items |-> IF text.kind = "array" THEN text.keys ELSE << >>]

\* variant: the row names no expense
ReceiptFile_noExpense(expenseId, key, n) == [expenseId |-> NONE, url |-> key, n |-> n]

\* the row written for the n-th key of the list
ReceiptFile(expenseId, key, n) == [expenseId |-> expenseId, url |-> key, n |-> n]

\* the texts callers send: absent, empty, not JSON, null, and arrays of keys
ReceiptKeyTexts ==
    { AbsentKeys, KeysText("empty", << >>), KeysText("malformed", << >>),
      KeysText("null", << >>), KeysText("array", << >>),
      KeysText("array", <<"k1">>), KeysText("array", <<"k1", "k2">>),
      KeysText("array", <<"k1", "k1">>) }

\* tenant.expense.create: the project guard, then the insert
Create_insert(r) ==
    /\ reqs[r].kind = "createExpense" /\ reqs[r].pc = "insert"
    /\ \/ /\ expense_create_guard(reqs[r].session.companyId, reqs[r].projectId)
          /\ \E supplied \in SuppliedKeys :
               expenses' = InsertExpense(NewExpense(reqs[r].projectId,
                              reqs[r].session.userId, AmountMinor(reqs[r].amount),
                              supplied))
          /\ reqs' = IF Falsy(reqs[r].receiptFileKeys)
                      THEN [ActionReturn(r, "")
                               EXCEPT ![r].wrote = @ \cup {"expense.create"},
                                      ![r].newId = FreshExpenseId]
                      ELSE [reqs EXCEPT ![r].pc = "receipts",
                                        ![r].wrote = @ \cup {"expense.create"},
                                        ![r].newId = FreshExpenseId]
          /\ UNCHANGED faults
       \/ /\ ~expense_create_guard(reqs[r].session.companyId, reqs[r].projectId)
          /\ reqs' = ActionThrow(r, "No Project found")
          /\ UNCHANGED <<expenses, faults>>
       \/ /\ expense_create_guard(reqs[r].session.companyId, reqs[r].projectId)
          /\ CanFail
          /\ faults' = faults + 1
          /\ reqs' = ActionFault(r)
          /\ UNCHANGED expenses
    /\ UNCHANGED <<companies, users, memberships, projects, approvals, auditLog,
                   policies, rates, receiptFiles, qres, qwrites>>

\* the try block after the insert: JSON.parse, then one
\* tenant.raw.receiptFile.create per key; whatever is thrown is caught and
\* the action returns the new expense's id
Create_receipt(r) ==
    /\ reqs[r].kind = "createExpense" /\ reqs[r].pc = "receipts"
    /\ LET parsed == JSON_parse(reqs[r].receiptFileKeys)
           n == reqs[r].keyIndex + 1
       IN
        \/ /\ parsed.threw \/ ~parsed.iterable \/ n > Len(parsed.items)
           /\ reqs' = ActionReturn(r, "")
           /\ UNCHANGED <<receiptFiles, faults>>
        \/ /\ ~parsed.threw /\ parsed.iterable /\ n <= Len(parsed.items)
           /\ receiptFiles' = receiptFiles \cup
                                 {ReceiptFile(reqs[r].newId, parsed.items[n], n)}
           /\ reqs' = IF n = Len(parsed.items)
                      THEN [ActionReturn(r, "") EXCEPT ![r].keyIndex = n]
                      ELSE [reqs EXCEPT ![r].keyIndex = n]
           /\ UNCHANGED faults
        \/ /\ ~parsed.threw /\ parsed.iterable /\ n <= Len(parsed.items)
           /\ CanFail
           /\ faults' = faults + 1
           /\ reqs' = [ActionReturn(r, "") EXCEPT ![r].faulted = TRUE]
           /\ UNCHANGED receiptFiles
    /\ UNCHANGED <<companies, users, memberships, projects, expenses, approvals,
                   auditLog, policies, rates, qres, qwrites>>

\* createExpenseSchema of the route: amountMinor is z.number().int().positive(),
\* the amount being given in minor units
Post_start(r) ==
    /\ reqs[r].pc = "idle"
    /\ NewExpensesStarted < MaxNewExpenses
    /\ \E s \in Sessions \cup {NoSession}, input \in PostInputs :
         LET q == [reqs[r] EXCEPT !.kind = "postExpense", !.session = s,
                                  !.projectId = input.projectId, !.amount = input.amount]
             a == input.amount
             auth == requireRole(s, {"ADMIN", "MANAGER", "EMPLOYEE"})
         IN reqs' = IF auth # "ok"
                    THEN [reqs EXCEPT ![r] = [q EXCEPT !.pc = "done", !.error = auth,
                                                !.http = ApiErrorStatus(auth)]]
                    ELSE IF a.kind # "num" \/ a.milli <= 0
                    THEN [reqs EXCEPT ![r] = [q EXCEPT !.pc = "done", !.http = 400,
                                                !.error = "Invalid request data"]]
                    ELSE [reqs EXCEPT ![r] = [q EXCEPT !.pc = "project"]]
    /\ UNCHANGED <<dbVars, faults, qres, qwrites>>

Post_project(r) ==
    /\ reqs[r].kind = "postExpense" /\ reqs[r].pc = "project"
    /\ LET project == project_findUnique(reqs[r].session.companyId,
                                         [NoWhere EXCEPT !.id = reqs[r].projectId])
       IN reqs' = IF project = {} THEN Throw(r, "Project not found")
                  ELSE [reqs EXCEPT ![r].pc = "insert"]
    /\ UNCHANGED <<dbVars, faults, qres, qwrites>>

Post_insert(r) ==
    /\ reqs[r].kind = "postExpense" /\ reqs[r].pc = "insert"
    /\ \/ /\ expense_create_guard(reqs[r].session.companyId, reqs[r].projectId)
          /\ \E supplied \in SuppliedKeys :
               expenses' = InsertExpense(NewExpense(reqs[r].projectId,
                              reqs[r].session.userId, reqs[r].amount.milli, supplied))
          /\ reqs' = [reqs EXCEPT ![r].pc = "audit",
                                  ![r].wrote = @ \cup {"expense.create"},
                                  ![r].newId = FreshExpenseId]
          /\ UNCHANGED faults
       \/ /\ ~expense_create_guard(reqs[r].session.companyId, reqs[r].projectId)
          /\ reqs' = Throw(r, "No Project found")
          /\ UNCHANGED <<expenses, faults>>
       \/ /\ expense_create_guard(reqs[r].session.companyId, reqs[r].projectId)
          /\ CanFail
          /\ faults' = faults + 1
          /\ reqs' = [Throw(r, DbError) EXCEPT ![r].faulted = TRUE]
          /\ UNCHANGED expenses
    /\ UNCHANGED <<companies, users, memberships, projects, approvals, auditLog,
                   policies, rates, receiptFiles, qres, qwrites>>

\* variant: the new entry takes the place of the latest one
createAuditLog_replacesLast(session, action, entity, entityId) ==
    [auditLog EXCEPT ![Len(auditLog)] =
        AuditEntry(session.companyId, session.userId, action, entity, entityId)]

\* TenantPrisma.createAuditLog: company and actor are the tenant's own
createAuditLog(session, action, entity, entityId) ==
    Append(auditLog, AuditEntry(session.companyId, session.userId, action, entity, entityId))

\* auditAction, then createSuccessResponse
Post_audit(r) ==
    /\ reqs[r].kind = "postExpense" /\ reqs[r].pc = "audit"
    /\ \/ /\ auditLog' = createAuditLog(reqs[r].session, "CREATE_EXPENSE", "Expense",
                                         reqs[r].newId)
          /\ reqs' = [Respond(r, 200, "") EXCEPT ![r].wrote = @ \cup {"audit"}]
          /\ UNCHANGED faults
       \/ /\ CanFail
          /\ faults' = faults + 1
          /\ reqs' = [Throw(r, DbError) EXCEPT ![r].faulted = TRUE]
          /\ UNCHANGED auditLog
    /\ UNCHANGED <<companies, users, memberships, projects, expenses, approvals,
                   policies, rates, receiptFiles, qres, qwrites>>

----------------------------------------------------------------------------
(* deleteProject (server action, ADMIN only) *)

DeleteProject_start(r) ==
    /\ reqs[r].pc = "idle"
    /\ \E s \in Sessions \cup {NoSession}, id \in ProjectIds :
         LET q == [reqs[r] EXCEPT !.kind = "deleteProject", !.session = s, !.id = id]
             auth == requireRole(s, {"ADMIN"})
         IN reqs' = IF auth = "ok"
                    THEN [reqs EXCEPT ![r] = [q EXCEPT !.pc = "read"]]
                    ELSE [reqs EXCEPT ![r] = [q EXCEPT !.pc = "done", !.error = auth]]
    /\ UNCHANGED <<dbVars, faults, qres, qwrites>>

\* tenant.project.findUnique
DeleteProject_read(r) ==
    /\ reqs[r].kind = "deleteProject" /\ reqs[r].pc = "read"
    /\ LET project == project_findUnique(reqs[r].session.companyId,
                                         [NoWhere EXCEPT !.id = reqs[r].id])
       IN reqs' = IF project = {} THEN ActionThrow(r, "Project not found")
                  ELSE [reqs EXCEPT ![r].pc = "count"]
    /\ UNCHANGED <<dbVars, faults, qres, qwrites>>

\* variant: one expense is tolerated
HasExpenses_moreThanOne(expenseCount) == expenseCount > 1

\* expenseCount > 0
HasExpenses(expenseCount) == expenseCount > 0

\* tenant.expense.count({ where: { projectId: id } }) and the emptiness check
DeleteProject_count(r) ==
    /\ reqs[r].kind = "deleteProject" /\ reqs[r].pc = "count"
    /\ LET expenseCount == expense_count(reqs[r].session.companyId,
                                [NoExpenseWhere EXCEPT !.projectId = reqs[r].id])
       IN reqs' = IF HasExpenses(expenseCount)
                  THEN ActionThrow(r, "Cannot delete project with existing expenses")
                  ELSE [reqs EXCEPT ![r].pc = "write",
                                    ![r].seen = [NoSeen EXCEPT !.found = TRUE]]
    /\ UNCHANGED <<dbVars, faults, qres, qwrites>>

RemoveProject(id) == [p \in DOMAIN projects \ {id} |-> projects[p]]

\* tenant.project.delete({ where: { id } }).  Expenses inserted since the
\* count either go with the project or make the statement fail, as the
\* schema's referential action decides.
DeleteProject_write(r) ==
    /\ reqs[r].kind = "deleteProject" /\ reqs[r].pc = "write"
    /\ LET id == reqs[r].id
           targets == project_delete(reqs[r].session.companyId, [NoWhere EXCEPT !.id = id])
           owned == { e \in DOMAIN expenses : expenses[e].projectId = id }
       IN
        \/ /\ targets # {}
           /\ projects' = RemoveProject(id)
           /\ expenses' = RemoveExpenses(owned)
           /\ approvals' = { a \in approvals : a.expenseId \notin owned }
           /\ reqs' = [reqs EXCEPT ![r].pc = "audit",
                                   ![r].wrote = @ \cup {"project.delete"}]
           /\ UNCHANGED faults
        \/ /\ targets = {}
           /\ reqs' = ActionThrow(r, "Record to delete does not exist")
           /\ UNCHANGED <<projects, expenses, approvals, faults>>
        \/ /\ targets # {} /\ owned # {}
           /\ reqs' = ActionThrow(r, "Foreign key constraint failed")
           /\ UNCHANGED <<projects, expenses, approvals, faults>>
        \/ /\ targets # {} /\ CanFail
           /\ faults' = faults + 1
           /\ reqs' = ActionFault(r)
           /\ UNCHANGED <<projects, expenses, approvals>>
    /\ UNCHANGED <<companies, users, memberships, auditLog, policies, rates,
                   receiptFiles, qres, qwrites>>

\* tenant.createAuditLog, then redirect("/projects"), which throws
DeleteProject_audit(r) ==
    /\ reqs[r].kind = "deleteProject" /\ reqs[r].pc = "audit"
    /\ \/ /\ auditLog' = createAuditLog(reqs[r].session, "DELETE_PROJECT", "Project",
                                         reqs[r].id)
          /\ reqs' = [ActionThrow(r, "NEXT_REDIRECT") EXCEPT ![r].wrote = @ \cup {"audit"}]
          /\ UNCHANGED faults
       \/ /\ CanFail
          /\ faults' = faults + 1
          /\ reqs' = ActionFault(r)
          /\ UNCHANGED auditLog
    /\ UNCHANGED <<companies, users, memberships, projects, expenses, approvals,
                   policies, rates, receiptFiles, qres, qwrites>>

----------------------------------------------------------------------------
(* POST /api/company/create.  The four inserts run inside one interactive  *)
(* transaction: they are buffered in the request's tx and reach the tables  *)
(* together at commit; an error inside the callback rolls the buffer back. *)

CompanyNames == {"Acme", "cA"}
AdminEmails == {"root@acme", "ceo@acme", "adminA"}

NewCompanyId(r) == IF r = "r1" THEN "cN1" ELSE "cN2"
NewUserId(r) == IF r = "r1" THEN "uN1" ELSE "uN2"

CompanyResponse(r, http, error) ==
    [reqs EXCEPT ![r].pc = "done", ![r].http = http, ![r].error = error,
                 ![r].success = (error = ""), ![r].tx = {}, ![r].wrote = reqs[r].tx]

Company_start(r) ==
    /\ reqs[r].pc = "idle"
    /\ \E name \in CompanyNames, email \in AdminEmails, valid \in BOOLEAN,
          adminPassword \in {"admin123"} :
         LET q == [reqs[r] EXCEPT !.kind = "createCompany", !.name = name,
                                  !.email = email, !.password = adminPassword]
         IN reqs' = IF valid
                    THEN [reqs EXCEPT ![r] = [q EXCEPT !.pc = "checkName"]]
                    ELSE [reqs EXCEPT ![r] = [q EXCEPT !.pc = "done", !.http = 400,
                                                !.error = "Validation failed"]]
    /\ UNCHANGED <<dbVars, faults, qres, qwrites>>

\* prisma.company.findFirst({ where: { name } })
Company_checkName(r) ==
    /\ reqs[r].kind = "createCompany" /\ reqs[r].pc = "checkName"
    /\ reqs' = IF \E c \in DOMAIN companies : companies[c].name = reqs[r].name
               THEN CompanyResponse(r, 400, "A company with this name already exists")
               ELSE [reqs EXCEPT ![r].pc = "checkEmail"]
    /\ UNCHANGED <<dbVars, faults, qres, qwrites>>

\* prisma.user.findUnique({ where: { email } })
Company_checkEmail(r) ==
    /\ reqs[r].kind = "createCompany" /\ reqs[r].pc = "checkEmail"
    /\ reqs' = IF \E u \in DOMAIN users : users[u].email = reqs[r].email
               THEN CompanyResponse(r, 400, "A user with this email already exists")
               ELSE [reqs EXCEPT ![r].pc = "tx.company"]
    /\ UNCHANGED <<dbVars, faults, qres, qwrites>>

TxSteps == <<"tx.company", "tx.user", "tx.membership", "tx.policy", "commit">>

NextTxStep(pc) == TxSteps[(CHOOSE i \in 1..4 : TxSteps[i] = pc) + 1]

\* the tables as they are once the buffered inserts of r are applied
ApplyTx(r) ==
    [companies |->
        IF "tx.company" \in reqs[r].tx
        THEN [c \in DOMAIN companies \cup {NewCompanyId(r)} |->
                 IF c = NewCompanyId(r) THEN [name |-> reqs[r].name] ELSE companies[c]]
        ELSE companies,
     users |->
        IF "tx.user" \in reqs[r].tx
        THEN [u \in DOMAIN users \cup {NewUserId(r)} |->
                 IF u = NewUserId(r)
                 THEN [email |-> reqs[r].email,
                       passwordHash |-> bcrypt_hash(reqs[r].password)]
                 ELSE users[u]]
        ELSE users,
     memberships |->
        IF "tx.membership" \in reqs[r].tx
        THEN memberships \cup {[id |-> NewUserId(r), userId |-> NewUserId(r),
                                companyId |-> NewCompanyId(r), role |-> "ADMIN"]}
        ELSE memberships,
     policies |->
        IF "tx.policy" \in reqs[r].tx
        THEN policies \cup {[id |-> NewCompanyId(r), companyId |-> NewCompanyId(r),
                             maxPerEmployeeMinor |-> 100000]}
        ELSE policies]

\* variant: the statements already run stay in the tables
Rollback_keepsWrites(r) == ApplyTx(r)

\* the tables after the transaction of r is rolled back: nothing of it remains
Rollback(r) ==
    [companies |-> companies, users |-> users, memberships |-> memberships,
     policies |-> policies]

SetTables(t) ==
    /\ companies' = t.companies
    /\ users' = t.users
    /\ memberships' = t.memberships
    /\ policies' = t.policies

\* the unique index on User.email: an insert waits for an open transaction
\* holding the same email and fails once such a row is committed
EmailHeldBy(r) ==
    { q \in ReqIds \ {r} : "tx.user" \in reqs[q].tx /\ reqs[q].email = reqs[r].email }

\* one statement of the transaction callback: company, user, membership, policy
Company_txStep(r) ==
    /\ reqs[r].kind = "createCompany"
    /\ reqs[r].pc \in {"tx.company", "tx.user", "tx.membership", "tx.policy"}
    /\ reqs[r].pc = "tx.user" => EmailHeldBy(r) = {}
    /\ LET duplicate == /\ reqs[r].pc = "tx.user"
                        /\ \E u \in DOMAIN users : users[u].email = reqs[r].email
       IN
        \/ /\ ~duplicate
           /\ reqs' = [reqs EXCEPT ![r].tx = @ \cup {reqs[r].pc},
                                   ![r].pc = NextTxStep(reqs[r].pc)]
           /\ UNCHANGED <<companies, users, memberships, policies, faults>>
        \/ /\ duplicate
           /\ reqs' = CompanyResponse(r, 500, "Failed to create company")
           /\ SetTables(Rollback(r))
           /\ UNCHANGED faults
        \/ /\ ~duplicate /\ CanFail
           /\ faults' = faults + 1
           /\ reqs' = [CompanyResponse(r, 500, "Failed to create company")
                          EXCEPT ![r].faulted = TRUE]
           /\ SetTables(Rollback(r))
    /\ UNCHANGED <<projects, expenses, approvals, auditLog, rates, receiptFiles, qres, qwrites>>

\* the callback returns: the transaction commits and the route answers 200
Company_commit(r) ==
    /\ reqs[r].kind = "createCompany" /\ reqs[r].pc = "commit"
    /\ \/ /\ SetTables(ApplyTx(r))
          /\ reqs' = CompanyResponse(r, 200, "")
          /\ UNCHANGED faults
       \/ /\ CanFail
          /\ faults' = faults + 1
          /\ reqs' = [CompanyResponse(r, 500, "Failed to create company")
                         EXCEPT ![r].faulted = TRUE]
          /\ SetTables(Rollback(r))
    /\ UNCHANGED <<projects, expenses, approvals, auditLog, rates, receiptFiles, qres, qwrites>>

----------------------------------------------------------------------------
(* The tenant wrapper called directly, with any where clause a caller can   *)
(* write.  qres records the call and the rows it returned or affected,     *)
(* each with the company it belonged to when the statement ran.            *)

OrClauses == { {} } \cup { {c} : c \in CompanyIds }

\* a where clause names a company through its company key or through an OR
Wheres(ids) ==
    { w \in [id : ids \cup {ANY}, companyId : CompanyIds \cup {ANY}, OR : OrClauses] :
        w.companyId = ANY \/ w.OR = {} }

\* where clauses without an OR
PlainWheres(ids) == [id : ids \cup {ANY}, companyId : CompanyIds \cup {ANY}, OR : {{}}]

ExpenseWheres ==
    { w \in [id : DOMAIN SeedExpenses \cup {ANY}, projectId : {ANY, "pB1"},
             employeeId : {ANY}, status : {ANY},
             project : CompanyIds \cup {ANY}, OR : OrClauses,
             expenseDate : {[gte |-> NoDate, lte |-> NoDate]}] :
        w.project = ANY \/ w.OR = {} }

\* the membership and project ids a caller names: one row of each company
MembershipProbeIds == {"m3", "m6"}
ProjectProbeIds == {"pA1", "pB1"}

ProjectRows(ids) == { [id |-> p, companyId |-> projects[p].companyId] : p \in ids }
ExpenseRows(ids) == { [id |-> e, companyId |-> CompanyOfExpense(e)] : e \in ids }
PlainRows(rows) == { [id |-> x.id, companyId |-> x.companyId] : x \in rows }
AuditRows(ids) == { [id |-> ToString(i), companyId |-> auditLog[i].companyId] : i \in ids }

\* the companies a caller's where clause names through its company key or
\* its OR disjuncts
Named(companyKey, w) == (IF companyKey = ANY THEN {} ELSE {companyKey}) \cup w.OR

\* conflict: the caller's where clause names a company other than the tenant
Result(tenant, entity, method, rows, named) ==
    [tenant |-> tenant, entity |-> entity, method |-> method, rows |-> rows,
     conflict |-> (named \ {tenant} # {})]

ReadMethods == {"findMany", "findUnique", "count"}

Tenant_project_read(c) ==
    /\ \E m \in ReadMethods, w \in Wheres(ProjectProbeIds) :
         /\ m = "findUnique" => w.id # ANY
         /\ qres' = Result(c, "project", m, ProjectRows(
                       CASE m = "findMany" -> project_findMany(c, w)
                         [] m = "findUnique" -> project_findUnique(c, w)
                         [] m = "count" -> project_countRows(c, w)),
                       Named(w.companyId, w))
    /\ UNCHANGED <<dbVars, reqs, faults, qwrites>>

Tenant_expense_read(c) ==
    /\ \E m \in ReadMethods, w \in ExpenseWheres :
         /\ m = "findUnique" => w.id # ANY
         /\ qres' = Result(c, "expense", m, ExpenseRows(
                       CASE m = "findMany" -> expense_findMany(c, w)
                         [] m = "findUnique" -> expense_findUnique(c, w)
                         [] m = "count" -> expense_countRows(c, w)),
                       Named(w.project, w))
    /\ UNCHANGED <<dbVars, reqs, faults, qwrites>>

Tenant_other_read(c) ==
    /\ \/ \E w \in Wheres(MembershipProbeIds) :
            qres' = Result(c, "membership", "find", PlainRows(membership_find(c, w)), Named(w.companyId, w))
       \/ \E w \in PlainWheres({ x.id : x \in policies }) :
            qres' = Result(c, "approvalPolicy", "find", PlainRows(approvalPolicy_find(c, w)), Named(w.companyId, w))
       \/ \E w \in PlainWheres({ ToString(i) : i \in 1..Len(auditLog) }) :
            qres' = Result(c, "auditLog", "findMany", AuditRows(auditLog_findMany(c, w)), Named(w.companyId, w))
       \/ \E w \in PlainWheres({ x.id : x \in rates }) :
            qres' = Result(c, "exchangeRateSnapshot", "find",
                           PlainRows(exchangeRateSnapshot_find(c, w)), Named(w.companyId, w))
    /\ UNCHANGED <<dbVars, reqs, faults, qwrites>>

\* project.update({ where, data: { active } }) and project.delete({ where })
Tenant_project_write(c) ==
    \E w \in Wheres(ProjectProbeIds) :
      /\ w.id # ANY
      /\ qwrites < MaxQueryWrites
      /\ qwrites' = qwrites + 1
      /\ \/ LET targets == project_update(c, w) IN
              /\ targets # {}
              /\ projects' = [p \in DOMAIN projects |->
                                IF p \in targets THEN [projects[p] EXCEPT !.active = ~@]
                                                 ELSE projects[p]]
              /\ qres' = Result(c, "project", "update", ProjectRows(targets), Named(w.companyId, w))
              /\ UNCHANGED <<expenses, approvals>>
         \/ LET targets == project_delete(c, w)
                owned == { e \in DOMAIN expenses : expenses[e].projectId \in targets }
            IN
              /\ targets # {}
              /\ projects' = [p \in DOMAIN projects \ targets |-> projects[p]]
              /\ expenses' = RemoveExpenses(owned)
              /\ approvals' = { a \in approvals : a.expenseId \notin owned }
              /\ qres' = Result(c, "project", "delete", ProjectRows(targets), Named(w.companyId, w))
      /\ UNCHANGED <<companies, users, memberships, auditLog, policies, rates, receiptFiles,
                     reqs, faults>>

\* expense.update({ where, data: { amountMinor } }) and expense.delete({ where })
Tenant_expense_write(c) ==
    \E w \in ExpenseWheres :
      /\ w.id # ANY
      /\ qwrites < MaxQueryWrites
      /\ qwrites' = qwrites + 1
      /\ \/ LET targets == expense_update(c, w) IN
              /\ targets # {}
              /\ expenses' = [e \in DOMAIN expenses |->
                                IF e \in targets THEN [expenses[e] EXCEPT !.amountMinor = 100]
                                                 ELSE expenses[e]]
              /\ qres' = Result(c, "expense", "update", ExpenseRows(targets), Named(w.project, w))
              /\ UNCHANGED approvals
         \/ LET targets == expense_delete(c, w) IN
              /\ targets # {}
              /\ expenses' = RemoveExpenses(targets)
              /\ approvals' = { a \in approvals : a.expenseId \notin targets }
              /\ qres' = Result(c, "expense", "delete", ExpenseRows(targets), Named(w.project, w))
      /\ UNCHANGED <<companies, users, memberships, projects, auditLog, policies,
                     rates, receiptFiles, reqs, faults>>

\* membership.update / membership.delete and approvalPolicy.update
Tenant_other_write(c) ==
    /\ qwrites < MaxQueryWrites
    /\ qwrites' = qwrites + 1
    /\ \/ \E w \in Wheres(MembershipProbeIds) :
            LET targets == membership_find(c, w) IN
            /\ w.id # ANY /\ targets # {}
            /\ memberships' = (memberships \ targets)
                                 \cup { [m EXCEPT !.role = "MANAGER"] : m \in targets }
            /\ qres' = Result(c, "membership", "update", PlainRows(targets), Named(w.companyId, w))
            /\ UNCHANGED policies
       \/ \E w \in Wheres(MembershipProbeIds) :
            LET targets == membership_find(c, w) IN
            /\ w.id # ANY /\ targets # {}
            /\ memberships' = memberships \ targets
            /\ qres' = Result(c, "membership", "delete", PlainRows(targets), Named(w.companyId, w))
            /\ UNCHANGED policies
       \/ \E w \in PlainWheres({ x.id : x \in policies }) :
            LET targets == approvalPolicy_find(c, w) IN
            /\ w.id # ANY /\ targets # {}
            /\ policies' = (policies \ targets)
                              \cup { [x EXCEPT !.maxPerEmployeeMinor = 0] : x \in targets }
            /\ qres' = Result(c, "approvalPolicy", "update", PlainRows(targets), Named(w.companyId, w))
            /\ UNCHANGED memberships
    /\ UNCHANGED <<companies, users, projects, expenses, approvals, auditLog, rates, receiptFiles,
                   reqs, faults>>

----------------------------------------------------------------------------
(* Expense listings computed through tenant.raw *)

raw_expense_findMany(where) == prisma_expense_find(where)

\* ManagerDashboard.loadExpenses: where: { status: filterStatus }
ManagerDashboard_loadExpenses(session) ==
    /\ session.role \in {"MANAGER", "ADMIN"}
    /\ \E filterStatus \in Statuses :
         qres' = Result(session.companyId, "expense", "ManagerDashboard.loadExpenses",
                   ExpenseRows(raw_expense_findMany(
                       [NoExpenseWhere EXCEPT !.status = filterStatus])), {})
    /\ UNCHANGED <<dbVars, reqs, faults, qwrites>>

\* AdminOverviewTab: recentActivity, no where clause
AdminOverviewTab_recentActivity(session) ==
    /\ session.role = "ADMIN"
    /\ qres' = Result(session.companyId, "expense", "AdminOverviewTab.recentActivity",
                  ExpenseRows(raw_expense_findMany(NoExpenseWhere)), {})
    /\ UNCHANGED <<dbVars, reqs, faults, qwrites>>

\* AdminHistoryTab.loadData: no where clause
AdminHistoryTab_loadData(session) ==
    /\ session.role = "ADMIN"
    /\ qres' = Result(session.companyId, "expense", "AdminHistoryTab.loadData",
                  ExpenseRows(raw_expense_findMany(NoExpenseWhere)), {})
    /\ UNCHANGED <<dbVars, reqs, faults, qwrites>>

\* AdminHistoryTab.handleFilter: status and project filters; the project
\* choices are the tenant's own projects or ALL.  The search term and date
\* range only narrow the result further.
AdminHistoryTab_handleFilter(session) ==
    /\ session.role = "ADMIN"
    /\ \E statusFilter \in Statuses \cup {ANY},
          projectFilter \in project_findMany(session.companyId, NoWhere) \cup {ANY} :
         qres' = Result(session.companyId, "expense", "AdminHistoryTab.handleFilter",
                   ExpenseRows(raw_expense_findMany(
                       [NoExpenseWhere EXCEPT !.status = statusFilter,
                                              !.projectId = projectFilter])), {})
    /\ UNCHANGED <<dbVars, reqs, faults, qwrites>>

\* GET /api/expenses: the where clause built from the session and the query
ExpensesWhere_allEmployees(session, query) ==
    [NoExpenseWhere EXCEPT !.status = query.status, !.projectId = query.projectId,
                           !.expenseDate = [gte |-> query.startDate,
                                            lte |-> query.endDate]]

ExpensesWhere(session, query) ==
    [NoExpenseWhere EXCEPT
        !.employeeId = IF session.role = "EMPLOYEE" THEN session.userId ELSE ANY,
        !.status = query.status, !.projectId = query.projectId,
        !.expenseDate = [gte |-> query.startDate, lte |-> query.endDate]]

\* orderBy: { createdAt: 'desc' }: the newest rows first
ExpenseListOrder == <<"n3", "n2", "n1", "xB", "x1">>

\* take: query.limit, skip: query.offset over the ordered rows
Page(ids, limit, offset) ==
    LET Listed(e) == e \in ids
        ordered == SelectSeq(ExpenseListOrder, Listed)
    IN { ordered[i] : i \in { j \in 1..Len(ordered) : offset < j /\ j <= offset + limit } }

\* the query strings of the model: expenseQuerySchema with its defaults
ExpenseQueries ==
    { query \in [status : {ANY, "APPROVED"}, projectId : {ANY, "pA1", "pB1"},
                 startDate : {NoDate, 2}, endDate : {NoDate, 2},
                 limit : {1, 50}, offset : {0, 1}] :
        /\ (query.startDate = NoDate \/ query.endDate = NoDate)
        /\ (query.limit = 50 <=> query.offset = 0) }

\* the handler: findMany and count run on the same where clause
Expenses_get(session) ==
    /\ requireRole(session, {"ADMIN", "MANAGER", "EMPLOYEE"}) = "ok"
    /\ \E query \in ExpenseQueries :
         LET whereClause == ExpensesWhere(session, query)
             found == expense_findMany(session.companyId, whereClause)
         IN qres' = [tenant |-> session.companyId, entity |-> "expense",
                     method |-> "GET /api/expenses",
                     rows |-> ExpenseRows(Page(found, query.limit, query.offset)),
                     conflict |-> FALSE,
                     session |-> session, query |-> query,
                     total |-> expense_count(session.companyId, whereClause)]
    /\ UNCHANGED <<dbVars, reqs, faults, qwrites>>

ListingMethods ==
    {"ManagerDashboard.loadExpenses", "AdminOverviewTab.recentActivity",
     "AdminHistoryTab.loadData", "AdminHistoryTab.handleFilter"}

----------------------------------------------------------------------------
(* Credentials login (NextAuth, session strategy "jwt").  The token is      *)
(* minted by the jwt callback when authorize returns a user and is carried  *)
(* unchanged by every later request; it is never refreshed from the tables. *)

\* the Membership table in row order: user.memberships is read without an
\* orderBy, so the included relation comes back in this order
MembershipRowOrder == <<"m1", "m2", "m3", "m4", "m5", "m6", "m7", "uN1", "uN2">>

\* include: { memberships }: the rows of one user, in row order
user_memberships(userId) ==
    LET Mine(id) == \E m \in memberships : m.id = id /\ m.userId = userId
        ids == SelectSeq(MembershipRowOrder, Mine)
    IN [k \in 1..Len(ids) |-> CHOOSE m \in memberships : m.id = ids[k]]

\* prisma.user.findUnique({ where: { email }, include: { memberships } })
user_findUnique(email) ==
    IF \E u \in DOMAIN users : users[u].email = email
    THEN LET u == CHOOSE u \in DOMAIN users : users[u].email = email
         IN [id |-> u, passwordHash |-> users[u].passwordHash,
             memberships |-> user_memberships(u)]
    ELSE NoUser

\* what authorize returns: null, or the user object handed to the jwt callback
NullUser == [id |-> NONE, companyId |-> NONE, role |-> NONE]

\* variant: the last membership is the primary one
primaryMembership_last(user) == user.memberships[Len(user.memberships)]

\* user.memberships[0]
primaryMembership(user) == user.memberships[1]

\* authorize, after the user row is read
authorize(credentials, user) ==
    IF credentials.email = NONE \/ credentials.password = NONE THEN NullUser
    ELSE IF user = NoUser THEN NullUser
    ELSE IF ~bcrypt_compare(credentials.password, user.passwordHash) THEN NullUser
    ELSE IF Len(user.memberships) = 0 THEN NullUser
    ELSE [id |-> user.id, companyId |-> primaryMembership(user).companyId,
          role |-> primaryMembership(user).role]

\* callbacks.jwt: the token takes the user's values at sign-in only
jwt(token, user) ==
    IF user # NullUser
    THEN [userId |-> user.id, companyId |-> user.companyId, role |-> user.role]
    ELSE token

\* callbacks.session: session.user is rebuilt from the token
session_callback(token) ==
    [id |-> token.userId, companyId |-> token.companyId, role |-> token.role]

\* getSession: null without a session user, else (userId, companyId, role)
getSession(token) ==
    LET user == session_callback(jwt(token, NullUser)) IN
    IF user.id = NONE THEN NoSession
    ELSE [userId |-> user.id, companyId |-> user.companyId, role |-> user.role]

\* the sign-in form: a missing or unknown email, users of the tables, and a
\* missing password or one of the seed passwords
Credentials ==
    [email : {NONE, "nobody", "adminA", "empA", "mgrB", "guest"},
     password : {NONE, "admin123", "manager123", "employee123"}]

\* a sign-in form is submitted; missing credentials are refused before any read
Login_start(r) ==
    /\ reqs[r].pc = "idle"
    /\ \E credentials \in Credentials :
         LET q == [reqs[r] EXCEPT !.kind = "login", !.email = credentials.email,
                                  !.password = credentials.password]
         IN reqs' = IF credentials.email = NONE \/ credentials.password = NONE
                    THEN [reqs EXCEPT ![r] = [q EXCEPT !.pc = "done", !.http = 401,
                                                !.error = "CredentialsSignin"]]
                    ELSE [reqs EXCEPT ![r] = [q EXCEPT !.pc = "authorize"]]
    /\ UNCHANGED <<dbVars, faults, qres, qwrites>>

\* the user row is read, authorize decides, and the jwt callback mints the token
Login_authorize(r) ==
    /\ reqs[r].kind = "login" /\ reqs[r].pc = "authorize"
    /\ LET credentials == [email |-> reqs[r].email, password |-> reqs[r].password]
           found == user_findUnique(reqs[r].email)
           user == authorize(credentials, found)
       IN reqs' = IF user = NullUser
                  THEN [reqs EXCEPT ![r].pc = "done", ![r].http = 401,
                                    ![r].error = "CredentialsSignin",
                                    ![r].user = found]
                  ELSE [reqs EXCEPT ![r].pc = "signedIn", ![r].http = 200,
                                    ![r].success = TRUE, ![r].user = found,
                                    ![r].token = jwt(NoSession, user)]
    /\ UNCHANGED <<dbVars, faults, qres, qwrites>>

\* a later request of a signed-in browser: getSession rebuilds the session
Session_get(r) ==
    /\ reqs[r].kind = "login" /\ reqs[r].pc = "signedIn"
    /\ reqs' = [reqs EXCEPT ![r].session = getSession(reqs[r].token)]
    /\ UNCHANGED <<dbVars, faults, qres, qwrites>>

----------------------------------------------------------------------------
(* The middleware (withAuth).  A pathname is the sequence of its characters *)
(* so that startsWith and equality are computed as the code computes them.  *)


\* the pathnames the middleware names, and some routes under them
Path ==
    [ Root |-> <<"/">>,
      Login |-> <<"/", "l", "o", "g", "i", "n">>,
      LoginReset |-> <<"/", "l", "o", "g", "i", "n", "/", "r", "e", "s", "e", "t">>,
      ApiAuth |-> <<"/", "a", "p", "i", "/", "a", "u", "t", "h">>,
      ApiAuthSession |-> <<"/", "a", "p", "i", "/", "a", "u", "t", "h", "/", "s", "e", "s", "s", "i", "o", "n">>,
      ApiCompanyCreate |-> <<"/", "a", "p", "i", "/", "c", "o", "m", "p", "a", "n", "y", "/", "c", "r", "e", "a", "t", "e">>,
      NextPrefix |-> <<"/", "_", "n", "e", "x", "t">>,
      NextStatic |-> <<"/", "_", "n", "e", "x", "t", "/", "s", "t", "a", "t", "i", "c">>,
      NextStaticChunk |-> <<"/", "_", "n", "e", "x", "t", "/", "s", "t", "a", "t", "i", "c", "/", "a", ".", "j", "s">>,
      NextImage |-> <<"/", "_", "n", "e", "x", "t", "/", "i", "m", "a", "g", "e">>,
      Favicon |-> <<"/", "f", "a", "v", "i", "c", "o", "n", ".", "i", "c", "o">>,
      Dashboard |-> <<"/", "d", "a", "s", "h", "b", "o", "a", "r", "d">>,
      Admin |-> <<"/", "a", "d", "m", "i", "n">>,
      AdminUsers |-> <<"/", "a", "d", "m", "i", "n", "/", "u", "s", "e", "r", "s">>,
      Manage |-> <<"/", "m", "a", "n", "a", "g", "e">>,
      Manager |-> <<"/", "m", "a", "n", "a", "g", "e", "r">>,
      ManagerQueue |-> <<"/", "m", "a", "n", "a", "g", "e", "r", "/", "q", "u", "e", "u", "e">>,
      Reports |-> <<"/", "r", "e", "p", "o", "r", "t", "s">>,
      ReportsYear |-> <<"/", "r", "e", "p", "o", "r", "t", "s", "/", "2", "0", "2", "4">>,
      Expenses |-> <<"/", "e", "x", "p", "e", "n", "s", "e", "s">>,
      Employee |-> <<"/", "e", "m", "p", "l", "o", "y", "e", "e">>,
      Profile |-> <<"/", "p", "r", "o", "f", "i", "l", "e">>,
      Api |-> <<"/", "a", "p", "i", "/">>,
      ApiExpenses |-> <<"/", "a", "p", "i", "/", "e", "x", "p", "e", "n", "s", "e", "s">>,
      Settings |-> <<"/", "s", "e", "t", "t", "i", "n", "g", "s">> ]

\* the pathnames requested
Pathnames ==
    { Path.Root, Path.Login, Path.LoginReset, Path.ApiAuthSession, Path.ApiCompanyCreate,
      Path.NextStaticChunk, Path.Favicon, Path.Dashboard, Path.Admin, Path.AdminUsers,
      Path.Manage, Path.ManagerQueue, Path.Reports, Path.ReportsYear, Path.Expenses,
      Path.Profile, Path.ApiExpenses, Path.Settings }

\* pathname.startsWith(prefix)
startsWith(pathname, prefix) ==
    /\ Len(pathname) >= Len(prefix)
    /\ SubSeq(pathname, 1, Len(prefix)) = prefix

\* config.matcher "/((?!_next/static|_next/image|favicon.ico).*)": the
\* middleware runs unless the pathname starts with one of the three; the dot
\* of favicon.ico stands for any character
matcher(pathname) ==
    /\ ~ startsWith(pathname, Path.NextStatic)
    /\ ~ startsWith(pathname, Path.NextImage)
    /\ ~ ( /\ Len(pathname) >= Len(Path.Favicon)
           /\ \A i \in 1..Len(Path.Favicon) :
                 Path.Favicon[i] = "." \/ pathname[i] = Path.Favicon[i] )

\* callbacks.authorized: public routes, else !!token
authorized(token, pathname) ==
    IF \/ pathname = Path.Root
       \/ startsWith(pathname, Path.Login)
       \/ startsWith(pathname, Path.ApiAuth)
       \/ startsWith(pathname, Path.ApiCompanyCreate)
       \/ startsWith(pathname, Path.NextPrefix)
       \/ pathname = Path.Favicon
    THEN TRUE
    ELSE IF \/ startsWith(pathname, Path.Dashboard)
            \/ startsWith(pathname, Path.Admin)
            \/ startsWith(pathname, Path.Manage)
            \/ startsWith(pathname, Path.Reports)
            \/ startsWith(pathname, Path.Expenses)
            \/ startsWith(pathname, Path.Employee)
            \/ startsWith(pathname, Path.Profile)
            \/ startsWith(pathname, Path.Api)
    THEN token # NoSession
    ELSE token # NoSession

NextResponse_next == [kind |-> "next", to |-> << >>]
NextResponse_redirect(to) == [kind |-> "redirect", to |-> to]
\* the redirect to the sign-in page of a request that is not authorized
SignInRedirect == [kind |-> "signin", to |-> << >>]

\* variant: /reports is not among the manager routes
ManagerRoute_noReports(pathname) ==
    \/ startsWith(pathname, Path.Manage)
    \/ startsWith(pathname, Path.Manager)

\* the manager+ routes
ManagerRoute(pathname) ==
    \/ startsWith(pathname, Path.Manage)
    \/ startsWith(pathname, Path.Reports)
    \/ startsWith(pathname, Path.Manager)

\* function middleware(req)
middleware(token, pathname) ==
    IF token # NoSession
    THEN IF startsWith(pathname, Path.Admin) /\ token.role # "ADMIN"
         THEN NextResponse_redirect(Path.Dashboard)
         ELSE IF ManagerRoute(pathname) /\ token.role \notin {"ADMIN", "MANAGER"}
         THEN NextResponse_redirect(Path.Dashboard)
         ELSE IF pathname = Path.Login
         THEN NextResponse_redirect(Path.Dashboard)
         ELSE NextResponse_next
    ELSE NextResponse_next

\* withAuth: an unmatched pathname bypasses the middleware, an unauthorized
\* request is sent to the sign-in page, an authorized one is handed to middleware
withAuth(token, pathname) ==
    IF ~ matcher(pathname) THEN NextResponse_next
    ELSE IF ~ authorized(token, pathname) THEN SignInRedirect
    ELSE middleware(token, pathname)

\* the tokens a request can carry: none, or the one minted at sign-in
Tokens == Sessions \cup {NoSession}

\* a page or API request passes through the middleware
Middleware_request(r) ==
    /\ reqs[r].pc = "idle"
    /\ \E pathname \in Pathnames :
         reqs' = [reqs EXCEPT ![r].kind = "page", ![r].pc = "done",
                              ![r].path = pathname,
                              ![r].nav = withAuth(reqs[r].token, pathname)]
    /\ UNCHANGED <<dbVars, faults, qres, qwrites>>

----------------------------------------------------------------------------
(* The manager page, a server component rendered for the request's session *)

\* hasRole: the value the promise it returns resolves to
hasRole(session, allowedRoles) ==
    session # NoSession /\ session.role \in allowedRoles

\* variant: the page awaits the promise before negating it
NotOfPromise_awaited(resolved) == ~resolved

\* !hasRole(...): the call is not awaited, so "!" is applied to the promise,
\* an object, and gives false whatever the promise resolves to
NotOfPromise(resolved) == FALSE

\* what ManagerPage returns: the thrown redirect of requireAuth, the Access
\* Denied view, or the manager dashboard
ManagerPage(session) ==
    IF requireAuth(session) # "ok" THEN [view |-> NONE, error |-> requireAuth(session)]
    ELSE IF NotOfPromise(hasRole(session, {"MANAGER", "ADMIN"}))
    THEN [view |-> "AccessDenied", error |-> ""]
    ELSE [view |-> "ManagerDashboard", error |-> ""]

\* the page is rendered for the session of the request's token
ManagerPage_render(r) ==
    /\ reqs[r].pc = "idle"
    /\ LET session == getSession(reqs[r].token)
           page == ManagerPage(session)
       IN reqs' = [reqs EXCEPT ![r].kind = "managerPage", ![r].pc = "done",
                               ![r].session = session,
                               ![r].inner = page.view, ![r].error = page.error]
    /\ UNCHANGED <<dbVars, faults, qres, qwrites>>

----------------------------------------------------------------------------
(* Specification *)

NoQuery == [tenant |-> NONE, entity |-> NONE, method |-> NONE, rows |-> {},
            conflict |-> FALSE]

Init ==
    /\ companies = [c \in CompanyIds |-> [name |-> c]]
    /\ users = SeedUsers
    /\ memberships = SeedMemberships
    /\ projects = SeedProjects
    /\ expenses = SeedExpenses
    /\ approvals = {}
    /\ auditLog = << AuditEntry("cA", "empA", "CREATE_EXPENSE", "Expense", "x1"),
                     AuditEntry("cB", "empB", "CREATE_EXPENSE", "Expense", "xB") >>
    /\ policies =
         { [id |-> "polA", companyId |-> "cA", maxPerEmployeeMinor |-> 100000],
           [id |-> "polB", companyId |-> "cB", maxPerEmployeeMinor |-> 100000] }
    /\ rates = { [id |-> "fxA", companyId |-> "cA"], [id |-> "fxB", companyId |-> "cB"] }
    /\ reqs = [r \in ReqIds |-> IdleReq]
    /\ faults = 0
    /\ qres = NoQuery
    /\ qwrites = 0
    /\ receiptFiles = {}

Next ==
    \E r \in ReqIds :
        \/ Approve_start(r)
        \/ Approve_read(r)
        \/ Approve_update(r)
        \/ Approve_approval(r)
        \/ Approve_audit(r)
        \/ Update_start(r)
        \/ Update_read(r)
        \/ Update_write(r)
        \/ Delete_start(r)
        \/ Delete_read(r)
        \/ Delete_write(r)
        \/ Create_start(r)
        \/ Create_project(r)
        \/ Create_policy(r)
        \/ Create_insert(r)
        \/ Post_start(r)
        \/ Post_project(r)
        \/ Post_insert(r)
        \/ Post_audit(r)
        \/ DeleteProject_start(r)
        \/ DeleteProject_read(r)
        \/ DeleteProject_count(r)
        \/ DeleteProject_write(r)
        \/ DeleteProject_audit(r)

Spec == Init /\ [][Next]_vars

Done(r, kind) == reqs[r].kind = kind /\ reqs[r].pc = "done"

\* r takes a step
Steps(r) == reqs'[r] # reqs[r]

\* the data-access layer on its own: wrapper calls and raw listings
NextQuery ==
    \/ \E c \in CompanyIds :
        \/ Tenant_project_read(c)
        \/ Tenant_expense_read(c)
        \/ Tenant_other_read(c)
        \/ Tenant_project_write(c)
        \/ Tenant_expense_write(c)
        \/ Tenant_other_write(c)
    \/ \E s \in Sessions :
        \/ ManagerDashboard_loadExpenses(s)
        \/ AdminOverviewTab_recentActivity(s)
        \/ AdminHistoryTab_loadData(s)
        \/ AdminHistoryTab_handleFilter(s)

SpecQuery == Init /\ [][NextQuery]_vars

\* company onboarding on its own
NextCompany ==
    \E r \in ReqIds :
        \/ Company_start(r)
        \/ Company_checkName(r)
        \/ Company_checkEmail(r)
        \/ Company_txStep(r)
        \/ Company_commit(r)

SpecCompany == Init /\ [][NextCompany]_vars

----------------------------------------------------------------------------
(* The admin page's policies tab.  An admin's tab loads the company's       *)
(* ApprovalPolicy when it mounts, inserts a default one when it found none, *)
(* and then sends updates of the policy it holds.  A tab takes the place of *)
(* a request that is not running.                                          *)

\* variant: the listing finds no policy
approvalPolicy_findMany_none(companyId) == {}

\* tenant.approvalPolicy.findMany()
approvalPolicy_findMany(companyId) == approvalPolicy_find(companyId, NoWhere)

NewPolicyId(r) == IF r = "r1" THEN "polT1" ELSE "polT2"

\* the caps an admin enters in the form, in minor units
PolicyCaps == {100000, 50000}

\* /admin rendered for an ADMIN session: the tab receives that session's tenant
Tab_open(r) ==
    /\ reqs[r].pc \in {"idle", "done"}
    /\ reqs[r].kind # "policiesTab"
    /\ \E m \in memberships :
         /\ m.role = "ADMIN"
         /\ reqs' = [reqs EXCEPT ![r] = [IdleReq EXCEPT !.kind = "policiesTab",
                                                        !.pc = "load",
                                                        !.session = SessionOf(m)]]
    /\ UNCHANGED <<dbVars, faults, qres, qwrites>>

\* loadPolicy: findMany, then data[0] when a row came back
Tab_load(r) ==
    /\ reqs[r].kind = "policiesTab" /\ reqs[r].pc = "load"
    /\ LET data == approvalPolicy_findMany(reqs[r].session.companyId) IN
        \/ /\ data # {}
           /\ \E first \in data :
                reqs' = [reqs EXCEPT ![r].pc = "ready", ![r].policy = first.id]
           /\ UNCHANGED faults
        \/ /\ data = {}
           /\ reqs' = [reqs EXCEPT ![r].pc = "create"]
           /\ UNCHANGED faults
        \/ /\ CanFail
           /\ faults' = faults + 1
           /\ reqs' = [reqs EXCEPT ![r].pc = "ready", ![r].error = DbError,
                                   ![r].faulted = TRUE]
    /\ UNCHANGED <<dbVars, qres, qwrites>>

\* loadPolicy: tenant.raw.approvalPolicy.create with the tenant's company
Tab_create(r) ==
    /\ reqs[r].kind = "policiesTab" /\ reqs[r].pc = "create"
    /\ \/ /\ policies' = policies \cup
                            {[id |-> NewPolicyId(r),
                              companyId |-> reqs[r].session.companyId,
                              maxPerEmployeeMinor |-> 100000]}
          /\ reqs' = [reqs EXCEPT ![r].pc = "ready", ![r].policy = NewPolicyId(r),
                                  ![r].wrote = @ \cup {"policy.create"}]
          /\ UNCHANGED faults
       \/ /\ CanFail
          /\ faults' = faults + 1
          /\ reqs' = [reqs EXCEPT ![r].pc = "ready", ![r].error = DbError,
                                  ![r].faulted = TRUE]
          /\ UNCHANGED policies
    /\ UNCHANGED <<companies, users, memberships, projects, expenses, approvals,
                   auditLog, rates, receiptFiles, qres, qwrites>>

\* handleUpdatePolicy: nothing without a loaded policy; otherwise
\* tenant.approvalPolicy.update({ where: { id: policy.id }, data })
Tab_update(r) ==
    /\ reqs[r].kind = "policiesTab" /\ reqs[r].pc = "ready"
    /\ reqs[r].policy # NONE
    /\ \E cap \in PolicyCaps :
         LET targets == approvalPolicy_find(reqs[r].session.companyId,
                                            [NoWhere EXCEPT !.id = reqs[r].policy])
         IN
          \/ /\ policies' = (policies \ targets)
                               \cup { [x EXCEPT !.maxPerEmployeeMinor = cap] : x \in targets }
             /\ reqs' = [reqs EXCEPT ![r].wrote =
                                        IF targets = {} THEN @ ELSE @ \cup {"policy.update"}]
             /\ UNCHANGED faults
          \/ /\ CanFail
             /\ faults' = faults + 1
             /\ reqs' = [reqs EXCEPT ![r].error = DbError, ![r].faulted = TRUE]
             /\ UNCHANGED policies
    /\ UNCHANGED <<companies, users, memberships, projects, expenses, approvals,
                   auditLog, rates, receiptFiles, qres, qwrites>>

\* the seed data and one company that was inserted without an ApprovalPolicy,
\* the case loadPolicy's insert is written for
InitPolicy ==
    /\ companies = [c \in CompanyIds \cup {"cL"} |-> [name |-> c]]
    /\ users = [u \in UserIds \cup {"adminL"} |->
                   IF u = "adminL"
                   THEN [email |-> u, passwordHash |-> bcrypt_hash(SeedPassword("ADMIN"))]
                   ELSE SeedUsers[u]]
    /\ memberships = SeedMemberships \cup
                        {[id |-> "m8", userId |-> "adminL", companyId |-> "cL",
                          role |-> "ADMIN"]}
    /\ projects = SeedProjects
    /\ expenses = SeedExpenses
    /\ approvals = {}
    /\ auditLog = << AuditEntry("cA", "empA", "CREATE_EXPENSE", "Expense", "x1"),
                     AuditEntry("cB", "empB", "CREATE_EXPENSE", "Expense", "xB") >>
    /\ policies =
         { [id |-> "polA", companyId |-> "cA", maxPerEmployeeMinor |-> 100000],
           [id |-> "polB", companyId |-> "cB", maxPerEmployeeMinor |-> 100000] }
    /\ rates = { [id |-> "fxA", companyId |-> "cA"], [id |-> "fxB", companyId |-> "cB"] }
    /\ reqs = [r \in ReqIds |-> IdleReq]
    /\ faults = 0
    /\ qres = NoQuery
    /\ qwrites = 0
    /\ receiptFiles = {}

NextPolicy ==
    \E r \in ReqIds :
        \/ Company_start(r)
        \/ Company_checkName(r)
        \/ Company_checkEmail(r)
        \/ Company_txStep(r)
        \/ Company_commit(r)
        \/ Tab_open(r)
        \/ Tab_load(r)
        \/ Tab_create(r)
        \/ Tab_update(r)

SpecPolicy == InitPolicy /\ [][NextPolicy]_vars

\* createExpense called with receiptFileKeys
NextReceipts ==
    \E r \in ReqIds :
        \/ Create_begin(r, ReceiptKeyTexts)
        \/ Create_project(r)
        \/ Create_policy(r)
        \/ Create_insert(r)
        \/ Create_receipt(r)

SpecReceipts == Init /\ [][NextReceipts]_vars

\* sign-in on its own.  One user belongs to two companies, one to none, and
\* memberships are edited while sessions are open
AuthMemberships ==
    SeedMemberships
        \cup { [id |-> "m7", userId |-> "empA", companyId |-> "cB", role |-> "MANAGER"] }

AuthUsers ==
    [u \in UserIds \cup {"guest"} |->
        IF u = "guest"
        THEN [email |-> u, passwordHash |-> bcrypt_hash("employee123")]
        ELSE SeedUsers[u]]

InitAuth ==
    /\ companies = [c \in CompanyIds |-> [name |-> c]]
    /\ users = AuthUsers
    /\ memberships = AuthMemberships
    /\ projects = SeedProjects
    /\ expenses = SeedExpenses
    /\ approvals = {}
    /\ auditLog = << AuditEntry("cA", "empA", "CREATE_EXPENSE", "Expense", "x1"),
                     AuditEntry("cB", "empB", "CREATE_EXPENSE", "Expense", "xB") >>
    /\ policies =
         { [id |-> "polA", companyId |-> "cA", maxPerEmployeeMinor |-> 100000],
           [id |-> "polB", companyId |-> "cB", maxPerEmployeeMinor |-> 100000] }
    /\ rates = { [id |-> "fxA", companyId |-> "cA"], [id |-> "fxB", companyId |-> "cB"] }
    /\ reqs = [r \in ReqIds |-> IdleReq]
    /\ faults = 0
    /\ qres = NoQuery
    /\ qwrites = 0
    /\ receiptFiles = {}

NextAuth ==
    \/ \E r \in ReqIds :
        \/ Login_start(r)
        \/ Login_authorize(r)
        \/ Session_get(r)
    \/ \E c \in CompanyIds : Tenant_other_write(c)

SpecAuth == InitAuth /\ [][NextAuth]_vars

\* the middleware on its own: each browser holds no token or a minted one
InitMiddleware ==
    /\ companies = [c \in CompanyIds |-> [name |-> c]]
    /\ users = SeedUsers
    /\ memberships = SeedMemberships
    /\ projects = SeedProjects
    /\ expenses = SeedExpenses
    /\ approvals = {}
    /\ auditLog = << >>
    /\ policies = {}
    /\ rates = {}
    /\ reqs \in [ReqIds -> { [IdleReq EXCEPT !.token = t] : t \in Tokens }]
    /\ faults = 0
    /\ qres = NoQuery
    /\ qwrites = 0
    /\ receiptFiles = {}

NextMiddleware == \E r \in ReqIds : Middleware_request(r)

SpecMiddleware == InitMiddleware /\ [][NextMiddleware]_vars

\* the manager page on its own, rendered for any token
NextPage == \E r \in ReqIds : ManagerPage_render(r)

SpecPage == InitMiddleware /\ [][NextPage]_vars

\* the expense listing on its own, over tables in which two later expenses
\* belong to either employee of company cA and to a project of either company
ListedExpenses ==
    { x \in [DOMAIN SeedExpenses \cup {"n1", "n2"} ->
                [projectId : {"pA1", "pB1"}, employeeId : {"empA", "empA2", "empB"},
                 status : {"PENDING", "APPROVED"}, amountMinor : {4500}]] :
        /\ x["x1"] = SeedExpenses["x1"] /\ x["xB"] = SeedExpenses["xB"]
        /\ \A e \in {"n1", "n2"} : x[e].employeeId # "empB"
        /\ x["n2"].status = "PENDING" }

InitList ==
    /\ companies = [c \in CompanyIds |-> [name |-> c]]
    /\ users = SeedUsers
    /\ memberships = SeedMemberships
    /\ projects = SeedProjects
    /\ expenses \in ListedExpenses
    /\ approvals = {}
    /\ auditLog = << >>
    /\ policies = {}
    /\ rates = {}
    /\ reqs = [r \in ReqIds |-> IdleReq]
    /\ faults = 0
    /\ qres = NoQuery
    /\ qwrites = 0
    /\ receiptFiles = {}

NextList == \E s \in Sessions : Expenses_get(s)

SpecList == InitList /\ [][NextList]_vars

----------------------------------------------------------------------------
(* Properties of the data-access layer (SpecQuery) *)

\* C1: every row a scoped wrapper method returns or affects for a tenant
\* belongs to that tenant's company, whatever where clause the caller wrote.
C1_TenantIsolation ==
    qres.method \notin ListingMethods =>
        \A row \in qres.rows : row.companyId = qres.tenant

\* an update through the wrapper of company cA whose where clause names
\* company cB, and which still affected a row
C1_Witness ==
    /\ qres.tenant = "cA" /\ qres.method = "update"
    /\ qres.conflict
    /\ qres.rows # {}

\* C2: every expense listing computed through the raw client for a session
\* contains only expenses whose project belongs to the session's company.
C2_ListingScoped ==
    qres.method \in ListingMethods =>
        \A row \in qres.rows : row.companyId = qres.tenant

----------------------------------------------------------------------------
(* Properties of the expense workflow (Spec) *)

IsCreate(r) == reqs[r].kind \in {"createExpense", "postExpense"}

ForeignProject(r) ==
    /\ reqs[r].session # NoSession
    /\ SeedProjects[reqs[r].projectId].companyId # reqs[r].session.companyId

ValidAmount(r) == reqs[r].amount.kind = "num" /\ reqs[r].amount.milli > 0

\* C3: creating an expense with a projectId of another company inserts no
\* Expense row and answers with the project-not-found error.
C3_ForeignProjectRejected ==
    \A r \in ReqIds :
        (IsCreate(r) /\ ForeignProject(r)) =>
            /\ "expense.create" \notin reqs[r].wrote
            /\ reqs[r].newId = NONE
            /\ (reqs[r].pc = "done" /\ ValidAmount(r)) =>
                  /\ reqs[r].kind = "postExpense" =>
                        reqs[r].error = "Project not found" /\ ~reqs[r].success
                  /\ reqs[r].kind = "createExpense" =>
                        reqs[r].inner = "Project not found or inactive"

\* both entry points have answered a request naming a project of another company
C3_Witness ==
    /\ \E r \in ReqIds : Done(r, "postExpense") /\ ForeignProject(r) /\ ValidAmount(r)
    /\ \E r \in ReqIds : Done(r, "createExpense") /\ ForeignProject(r) /\ ValidAmount(r)

HasApproval(r) ==
    \E a \in approvals : /\ a.expenseId = reqs[r].id
                          /\ a.managerId = reqs[r].session.userId
                          /\ a.decision = reqs[r].decision

HasDecisionAudit(r) ==
    \E i \in 1..Len(auditLog) : /\ auditLog[i].entity = "Expense"
                                 /\ auditLog[i].entityId = reqs[r].id
                                 /\ auditLog[i].actorUserId = reqs[r].session.userId
                                 /\ auditLog[i].action \in {"EXPENSE_APPROVE", "EXPENSE_REJECT"}

Decidable(r) ==
    /\ reqs[r].id \in DOMAIN expenses
    /\ CompanyOfExpense(reqs[r].id) = reqs[r].session.companyId
    /\ expenses[reqs[r].id].status = "PENDING"

C7_OnlyManagersDecide ==
    [][\A r \in ReqIds :
        (Steps(r) /\ reqs'[r].session.role \notin {"MANAGER", "ADMIN"})
        => /\ \A e \in DOMAIN expenses \cap DOMAIN expenses' :
                 expenses'[e].status = expenses[e].status
           /\ approvals' \subseteq approvals]_vars

\* decision requests by an EMPLOYEE session and without a session were answered
C7_Witness ==
    /\ \E r \in ReqIds : Done(r, "approve") /\ reqs[r].session.role = "EMPLOYEE"
                           /\ reqs[r].id \in DOMAIN expenses
    /\ \E r \in ReqIds : Done(r, "approve") /\ reqs[r].session = NoSession

IsEdit(r) == reqs[r].kind \in {"updateExpense", "deleteExpense"}

Editable(r) ==
    /\ reqs[r].id \in DOMAIN expenses
    /\ CompanyOfExpense(reqs[r].id) = reqs[r].session.companyId
    /\ expenses[reqs[r].id].employeeId = reqs[r].session.userId
    /\ expenses[reqs[r].id].status = "PENDING"

ProjectHasExpenses(id) == \E e \in DOMAIN expenses : expenses[e].projectId = id

\* C9: deleteProject by an ADMIN on a project of the own company fails and
\* leaves the project in place when it counts one or more expenses, and
\* removes the project when it counts none.
C9_DeleteProjectGuard ==
    /\ [][\A r \in ReqIds :
            /\ (/\ reqs[r].kind = "deleteProject" /\ reqs[r].pc = "count" /\ Steps(r)
                 /\ ProjectHasExpenses(reqs[r].id))
                  => /\ reqs'[r].pc = "done" /\ ~reqs'[r].success
                     /\ reqs'[r].error = "Cannot delete project with existing expenses"
                     /\ projects' = projects
            /\ (/\ reqs[r].kind = "deleteProject" /\ reqs[r].pc = "count" /\ Steps(r)
                 /\ ~ProjectHasExpenses(reqs[r].id))
                  => reqs'[r].pc = "write"
            /\ (reqs[r].kind = "deleteProject" /\ Steps(r) /\ projects' # projects)
                  => /\ reqs[r].pc = "write" /\ reqs[r].seen.found
                     /\ DOMAIN projects' = DOMAIN projects \ {reqs[r].id}]_vars
    /\ [](\A r \in ReqIds :
            (Done(r, "deleteProject") /\ reqs[r].seen.found /\ reqs[r].id \in DOMAIN projects)
                => \/ reqs[r].faulted
                   \/ reqs[r].error = "Foreign key constraint failed")

\* an admin was refused on a project with expenses and removed an empty one
C9_Witness ==
    /\ \E r \in ReqIds : /\ Done(r, "deleteProject") /\ reqs[r].id = "pA1"
                           /\ reqs[r].error = "Cannot delete project with existing expenses"
                           /\ "pA1" \in DOMAIN projects
    /\ \E r \in ReqIds : /\ Done(r, "deleteProject") /\ reqs[r].id = "pA2"
                           /\ "project.delete" \in reqs[r].wrote
                           /\ "pA2" \notin DOMAIN projects

----------------------------------------------------------------------------
(* Properties of company onboarding (SpecCompany) *)

CompanyRow(r) == NewCompanyId(r) \in DOMAIN companies
AdminRow(r) == NewUserId(r) \in DOMAIN users
MembershipRow(r) ==
    \E m \in memberships : /\ m.userId = NewUserId(r) /\ m.companyId = NewCompanyId(r)
                            /\ m.role = "ADMIN"
PolicyRow(r) == \E x \in policies : x.companyId = NewCompanyId(r)

\* C10: the Company, the admin User, the ADMIN Membership and the default
\* ApprovalPolicy of a creation request exist all together or not at all,
\* and a request that did not answer 200 leaves no Company row.
C10_CompanyAtomic ==
    \A r \in ReqIds :
        /\ \/ CompanyRow(r) /\ AdminRow(r) /\ MembershipRow(r) /\ PolicyRow(r)
           \/ ~CompanyRow(r) /\ ~AdminRow(r) /\ ~MembershipRow(r) /\ ~PolicyRow(r)
        /\ (Done(r, "createCompany") /\ reqs[r].http = 200) => CompanyRow(r)
        /\ (Done(r, "createCompany") /\ reqs[r].http # 200) => ~CompanyRow(r)

\* one request failed after its Company insert had run, another committed
C10_Witness ==
    /\ \E r \in ReqIds : /\ Done(r, "createCompany") /\ reqs[r].http = 500
                           /\ "tx.company" \in reqs[r].wrote
    /\ \E r \in ReqIds : Done(r, "createCompany") /\ reqs[r].http = 200 /\ CompanyRow(r)

\* C23: a creation request whose company name or admin email is taken is
\* answered 400 and writes nothing, so that no two companies share a name
\* under any interleaving of creation requests.
C23_UniqueCompanyNames ==
    /\ \A c, d \in DOMAIN companies : c # d => companies[c].name # companies[d].name
    /\ \A r \in ReqIds :
          (Done(r, "createCompany") /\ reqs[r].http = 400) =>
              ~CompanyRow(r) /\ reqs[r].wrote = {}

----------------------------------------------------------------------------
(* Properties of expense creation and audit (Spec) *)

WritesAmount(r) == reqs[r].kind \in {"createExpense", "postExpense", "updateExpense"}

\* zero, negative or not a number
NotPositiveNumber(amount) ==
    amount.kind = "nan" \/ (amount.kind = "num" /\ amount.milli <= 0)

\* C11: every Expense row has an amountMinor greater than zero, and a create
\* or update request whose amount is zero, negative or not a number ends
\* with an error and has written nothing.
C11_AmountPositive ==
    /\ \A e \in DOMAIN expenses : expenses[e].amountMinor > 0
    /\ \A r \in ReqIds :
          (WritesAmount(r) /\ reqs[r].session # NoSession
                /\ NotPositiveNumber(reqs[r].amount))
            => /\ reqs[r].wrote = {}
               /\ reqs[r].pc = "done" => (reqs[r].inner # "" \/ reqs[r].error # "")

Inserted == DOMAIN expenses' \ DOMAIN expenses

\* C12: an Expense is inserted only against a project that is active at
\* that moment, and a create request naming an inactive project of the
\* caller's company inserts nothing.
C12_ActiveProjectOnly ==
    [][/\ \A e \in Inserted : projects[expenses'[e].projectId].active
       /\ \A r \in ReqIds :
            (/\ IsCreate(r) /\ Steps(r) /\ reqs[r].session # NoSession
             /\ reqs[r].projectId \in DOMAIN projects
             /\ projects[reqs[r].projectId].companyId = reqs[r].session.companyId
             /\ ~projects[reqs[r].projectId].active)
            => Inserted = {}]_vars

\* C13: an Expense is never inserted with an amount above the per-employee
\* cap of the ApprovalPolicy of its company, and createExpense lets an amount
\* equal to the cap pass its policy check.
C13_CapEnforced ==
    [][/\ \A e \in Inserted : \A pol \in policies :
            (/\ pol.companyId = projects[expenses'[e].projectId].companyId
             /\ pol.maxPerEmployeeMinor > 0)
            => expenses'[e].amountMinor <= pol.maxPerEmployeeMinor
       /\ \A r \in ReqIds : \A pol \in policies :
            (/\ reqs[r].kind = "createExpense" /\ reqs[r].pc = "policy" /\ Steps(r)
             /\ pol.companyId = reqs[r].session.companyId
             /\ reqs[r].amount.milli = pol.maxPerEmployeeMinor * 10)
            => reqs'[r].pc = "insert"]_vars

AuditFor(r, entityId) ==
    \E i \in 1..Len(auditLog) :
        /\ auditLog[i].companyId = reqs[r].session.companyId
        /\ auditLog[i].actorUserId = reqs[r].session.userId
        /\ auditLog[i].entityId = entityId

\* C14: every operation that has ended successfully (an expense decision,
\* an expense created, updated or deleted, a project deleted) has appended
\* an AuditLog entry of the caller's company, with the caller as actor and
\* the affected row as entity id.
C14_EveryWriteAudited ==
    \A r \in ReqIds :
        /\ (Done(r, "approve") /\ reqs[r].http = 200) => AuditFor(r, reqs[r].id)
        /\ (Done(r, "postExpense") /\ reqs[r].http = 200) => AuditFor(r, reqs[r].newId)
        /\ (Done(r, "createExpense") /\ reqs[r].success /\ reqs[r].newId # NONE)
              => AuditFor(r, reqs[r].newId)
        /\ (IsEdit(r) /\ reqs[r].pc = "done" /\ reqs[r].success /\ reqs[r].wrote # {})
              => AuditFor(r, reqs[r].id)
        /\ (Done(r, "deleteProject") /\ "project.delete" \in reqs[r].wrote
                /\ ~reqs[r].faulted)
              => AuditFor(r, reqs[r].id)

\* C15: the AuditLog only grows: every step keeps each existing entry
\* unchanged at its place.
C15_AuditAppendOnly ==
    [][/\ Len(auditLog') >= Len(auditLog)
       /\ \A i \in 1..Len(auditLog) : auditLog'[i] = auditLog[i]]_vars

\* two requests have each appended an entry after the seeded ones
C15_Witness ==
    /\ Len(auditLog) >= 4
    /\ \E r \in ReqIds : Done(r, "postExpense") /\ "audit" \in reqs[r].wrote
    /\ \E r \in ReqIds : Done(r, "approve") /\ "audit" \in reqs[r].wrote

\* the roles the route of a request asks createApiHandler for
RequiredRoles(kind) ==
    IF kind = "approve" THEN {"MANAGER", "ADMIN"} ELSE {"ADMIN", "MANAGER", "EMPLOYEE"}

\* C17: a request to a createApiHandler route without a session is answered
\* 401, and one whose role is not among the required roles is answered 403;
\* in both cases nothing is written.
C17_AuthFailureStatus ==
    \A r \in ReqIds :
        (reqs[r].kind \in {"approve", "postExpense"} /\ reqs[r].pc = "done") =>
            /\ reqs[r].session = NoSession =>
                  reqs[r].http = 401 /\ reqs[r].wrote = {}
            /\ ( /\ reqs[r].session # NoSession
                 /\ reqs[r].session.role \notin RequiredRoles(reqs[r].kind) ) =>
                  reqs[r].http = 403 /\ reqs[r].wrote = {}

\* C18: no expense is ever ESCALATED; every expense is PENDING, APPROVED or
\* REJECTED in every state the routes and server actions reach.
C18_NeverEscalated ==
    \A e \in DOMAIN expenses : expenses[e].status \in {"PENDING", "APPROVED", "REJECTED"}

\* an expense was rejected and another one was created since
C18_Witness ==
    /\ \E e \in DOMAIN expenses : expenses[e].status = "REJECTED"
    /\ \E r \in ReqIds : Done(r, "approve") /\ "status" \in reqs[r].wrote
    /\ DOMAIN expenses \ DOMAIN SeedExpenses # {}

\* C22: an expense created by POST /api/expenses or createExpense is stored
\* PENDING and owned by the session user, whatever status or employeeId the
\* request carried.
C22_CreatedPendingOwned ==
    [][\A r \in ReqIds :
        (reqs[r].kind \in {"createExpense", "postExpense"} /\ Steps(r)) =>
            \A e \in Inserted :
                /\ expenses'[e].status = "PENDING"
                /\ expenses'[e].employeeId = reqs[r].session.userId]_vars

\* both ways of creating an expense have stored one
C22_Witness ==
    \E r, q \in ReqIds :
        /\ reqs[r].kind = "createExpense" /\ reqs[r].newId \in DOMAIN expenses
        /\ reqs[q].kind = "postExpense" /\ reqs[q].newId \in DOMAIN expenses
        /\ reqs[r].session.role = "EMPLOYEE" /\ reqs[q].session.role = "EMPLOYEE"

\* r is a decision request whose insert of an Approval or AuditLog row fails
FailsAfterStatus(r) ==
    /\ reqs[r].kind = "approve" /\ reqs[r].pc \in {"approval", "audit"}
    /\ reqs'[r].pc = "done" /\ reqs'[r].http # 200

C26_WrittenInOwnCompany ==
    [][\A r \in ReqIds :
        (reqs[r].kind \in {"createExpense", "postExpense", "updateExpense"} /\ Steps(r)) =>
            \A e \in DOMAIN expenses' :
                (e \notin DOMAIN expenses \/ expenses'[e] # expenses[e]) =>
                    /\ expenses'[e].projectId \in DOMAIN projects'
                    /\ projects'[expenses'[e].projectId].companyId
                           = reqs[r].session.companyId]_vars

----------------------------------------------------------------------------
(* Properties of sign-in (SpecAuth) *)

\* the position of a Membership row in the table
RowPosition(id) ==
    CHOOSE i \in 1..Len(MembershipRowOrder) : MembershipRowOrder[i] = id

\* the first Membership row of user u
FirstMembership(u) ==
    CHOOSE m \in memberships :
        /\ m.userId = u
        /\ \A n \in memberships : n.userId = u => RowPosition(m.id) <= RowPosition(n.id)

\* C16: a successful login mints a session holding the user's id and the
\* companyId and role of the user's first Membership row, and every later
\* request of that session sees the same three values, whatever happens to
\* the Membership rows meanwhile.
C16_SessionOfFirstMembership ==
    [][\A r \in ReqIds :
        /\ (reqs[r].pc = "authorize" /\ reqs'[r].pc = "signedIn") =>
              \E u \in DOMAIN users :
                 /\ users[u].email = reqs[r].email
                 /\ reqs'[r].token = [userId    |-> u,
                                      companyId |-> FirstMembership(u).companyId,
                                      role      |-> FirstMembership(u).role]
        /\ reqs[r].pc = "signedIn" =>
              /\ reqs'[r].pc = "signedIn"
              /\ reqs'[r].token = reqs[r].token
              /\ Steps(r) => reqs'[r].session = reqs[r].token]_vars

\* a user of two companies is signed in with the first one, has made a later
\* request, and that first Membership row is no longer what it was
C16_Witness ==
    \E r \in ReqIds :
        /\ reqs[r].pc = "signedIn"
        /\ reqs[r].session = [userId |-> "empA", companyId |-> "cA", role |-> "EMPLOYEE"]
        /\ \A m \in memberships : m.id = "m3" => m.role = "MANAGER"

\* the login of r ended without a session
Refused(r) ==
    /\ reqs'[r].pc = "done"
    /\ reqs'[r].token = NoSession
    /\ reqs'[r].session = NoSession

\* the stored hash of the user with this email is not the hash of the password
PasswordMismatch(email, password) ==
    \E u \in DOMAIN users : users[u].email = email /\ users[u].passwordHash.of # password

\* C20: a login is refused, and no session is granted, when the email or the
\* password is missing, no user has the email, the password does not match
\* the stored hash, or the user has no Membership row.
C20_LoginRefused ==
    [][\A r \in ReqIds :
        /\ ( /\ reqs[r].pc = "idle" /\ reqs'[r].kind = "login"
             /\ (reqs'[r].email = NONE \/ reqs'[r].password = NONE) ) => Refused(r)
        /\ ( /\ reqs[r].pc = "authorize" /\ Steps(r)
             /\ \/ ~ \E u \in DOMAIN users : users[u].email = reqs[r].email
                \/ PasswordMismatch(reqs[r].email, reqs[r].password)
                \/ \E u \in DOMAIN users :
                      /\ users[u].email = reqs[r].email
                      /\ ~ \E m \in memberships : m.userId = u ) => Refused(r)]_vars

\* a user without a membership was refused with the right password, and a
\* user with a membership was refused with a wrong one
C20_Witness ==
    \E r, q \in ReqIds :
        /\ Done(r, "login") /\ reqs[r].email = "guest" /\ reqs[r].password = "employee123"
        /\ reqs[r].token = NoSession
        /\ Done(q, "login") /\ reqs[q].email = "adminA" /\ reqs[q].password = "manager123"
        /\ reqs[q].token = NoSession

----------------------------------------------------------------------------
(* Properties of the middleware (SpecMiddleware) *)

\* the pathname begins with the characters of prefix
Under(pathname, prefix) ==
    Len(pathname) >= Len(prefix) /\ \A i \in 1..Len(prefix) : pathname[i] = prefix[i]

LetThrough(r) == reqs[r].nav = [kind |-> "next", to |-> << >>]
ToDashboard(r) == reqs[r].nav = [kind |-> "redirect", to |-> Path.Dashboard]

\* the routes open to a request without a token
PublicPath(pathname) ==
    \/ pathname = Path.Root
    \/ Under(pathname, Path.Login)
    \/ Under(pathname, Path.ApiAuth)
    \/ Under(pathname, Path.ApiCompanyCreate)
    \/ Under(pathname, Path.NextPrefix)
    \/ pathname = Path.Favicon

\* C19: with a token, a path under /admin passes only for ADMIN and a path
\* under /manage, /reports or /manager only for ADMIN or MANAGER, the others
\* being redirected to /dashboard; without a token only the public routes pass.
C19_MiddlewareRoutes ==
    \A r \in ReqIds :
        Done(r, "page") =>
            LET pathname == reqs[r].path
                token == reqs[r].token
            IN /\ (token # NoSession /\ Under(pathname, Path.Admin)) =>
                     IF token.role = "ADMIN" THEN LetThrough(r) ELSE ToDashboard(r)
               /\ ( /\ token # NoSession
                    /\ \/ Under(pathname, Path.Manage)
                       \/ Under(pathname, Path.Reports)
                       \/ Under(pathname, Path.Manager) ) =>
                     IF token.role \in {"ADMIN", "MANAGER"}
                     THEN LetThrough(r) ELSE ToDashboard(r)
               /\ token = NoSession => (LetThrough(r) <=> PublicPath(pathname))

\* an employee was turned away from a report while a visitor without a token
\* was turned away from the dashboard
C19_Witness ==
    \E r, q \in ReqIds :
        /\ Done(r, "page") /\ reqs[r].token # NoSession /\ reqs[r].token.role = "EMPLOYEE"
        /\ reqs[r].path = Path.ReportsYear /\ ToDashboard(r)
        /\ Done(q, "page") /\ reqs[q].token = NoSession
        /\ reqs[q].path = Path.Dashboard /\ ~LetThrough(q)

----------------------------------------------------------------------------
(* Properties of the expense listing (SpecList) *)

\* the expenses an employee may list under a query: their own, in a project
\* of their company, passing the status, project and date filters
EmployeeMatches(session, query) ==
    { e \in DOMAIN expenses :
        /\ expenses[e].employeeId = session.userId
        /\ projects[expenses[e].projectId].companyId = session.companyId
        /\ (query.status = ANY \/ expenses[e].status = query.status)
        /\ (query.projectId = ANY \/ expenses[e].projectId = query.projectId)
        /\ (query.startDate = NoDate \/ ExpenseDate(e) >= query.startDate)
        /\ (query.endDate = NoDate \/ ExpenseDate(e) <= query.endDate) }

\* C21: for an EMPLOYEE session GET /api/expenses returns only the caller's
\* own expenses in projects of the caller's company, under every status,
\* project and date filter, and the total is the size of that filtered set.
C21_EmployeeListing ==
    (qres.method = "GET /api/expenses" /\ qres.session.role = "EMPLOYEE") =>
        /\ { row.id : row \in qres.rows } \subseteq EmployeeMatches(qres.session, qres.query)
        /\ qres.total = Cardinality(EmployeeMatches(qres.session, qres.query))

\* an employee lists one page while a colleague of the same company has an
\* expense too and one of the caller's own expenses sits in a foreign project
C21_Witness ==
    /\ qres.method = "GET /api/expenses"
    /\ qres.session.userId = "empA" /\ qres.query.status = ANY
    /\ qres.rows # {} /\ qres.total = 1
    /\ expenses["n1"].employeeId = "empA2" /\ expenses["n1"].projectId = "pA1"
    /\ expenses["n2"].employeeId = "empA" /\ expenses["n2"].projectId = "pB1"

----------------------------------------------------------------------------
(* Properties of the server actions' results (Spec)                        *)

ServerActions == {"createExpense", "updateExpense", "deleteExpense", "deleteProject"}

\* C27: the result of a server action has success = TRUE exactly when the
\* action applied its effect: a request the action rejected ends with
\* success FALSE, and a deleteProject that removed the project ends with
\* success TRUE.
C27_SuccessIffApplied ==
    \A r \in ReqIds :
        (reqs[r].kind \in ServerActions /\ reqs[r].pc = "done" /\ ~reqs[r].faulted) =>
            (reqs[r].success <=> reqs[r].wrote # {})

----------------------------------------------------------------------------
(* Properties of the approval policies (SpecPolicy)                        *)

CreatedCompanies == DOMAIN companies \cap { NewCompanyId(r) : r \in ReqIds }

PoliciesOf(c) == { x \in policies : x.companyId = c }

\* C28: every company created through the company-creation endpoint has
\* exactly one ApprovalPolicy in every reachable state, also while tabs of
\* the company's admin load and update the policy concurrently.
C28_OnePolicyPerCreatedCompany ==
    \A c \in CreatedCompanies : Cardinality(PoliciesOf(c)) = 1

\* two tabs of a created company hold its policy and one of them changed it
C28_Witness ==
    \E c \in CreatedCompanies :
        /\ \A r \in ReqIds :
              /\ reqs[r].kind = "policiesTab" /\ reqs[r].pc = "ready"
              /\ reqs[r].session.companyId = c
              /\ reqs[r].policy # NONE
        /\ \E r \in ReqIds : "policy.update" \in reqs[r].wrote
        /\ \E x \in PoliciesOf(c) : x.maxPerEmployeeMinor = 50000

\* a company inserted without a policy gets two when two tabs load at once
LegacyCompanyTwoPolicies == Cardinality(PoliciesOf("cL")) = 2

----------------------------------------------------------------------------
(* Properties of the receipt files (SpecReceipts)                          *)

ReceiptsOf(e) == { x \in receiptFiles : x.expenseId = e }

ExpenseInsertedBy(r) == reqs[r].kind = "createExpense" /\ "expense.create" \in reqs[r].wrote

----------------------------------------------------------------------------
(* Properties of the manager page (SpecPage)                               *)

\* C30: ManagerPage renders the manager dashboard only for a session whose
\* role is MANAGER or ADMIN, and the Access Denied view for a session with
\* any other role.
C30_ManagerPageByRole ==
    \A r \in ReqIds :
        (Done(r, "managerPage") /\ reqs[r].session # NoSession) =>
            IF reqs[r].session.role \in {"MANAGER", "ADMIN"}
            THEN reqs[r].inner = "ManagerDashboard"
            ELSE reqs[r].inner = "AccessDenied"

====
